---- MODULE Spec2Model ----
(***************************************************************************)
(* Model of the chaos-agents experiment engine:                            *)
(*   chaos-core/src/orchestrator.rs  Orchestrator::run_experiment,         *)
(*                                   execute_skills, rollback_experiment   *)
(*   chaos-core/src/rollback.rs      RollbackLog                           *)
(*   chaos-core/src/event.rs         ExperimentEvent                       *)
(*   chaos-tui/src/lib.rs            run_app (task abort on cancel)        *)
(*   chaos-db/src/agent.rs           DbAgent (the reference agent)         *)
(*   chaos-db/src/skills/config_change.rs  ConfigChangeSkill::execute      *)
(*                                                                         *)
(* One call of run_experiment is a process whose position is pc.  The     *)
(* code between two suspension points (.await that can really suspend)     *)
(* runs without interruption; the task that runs the call can be aborted   *)
(* only while it is suspended.                                             *)
(***************************************************************************)
EXTENDS Integers, Sequences, FiniteSets, TLC

\* ---------------------------------------------------------------- bounds
MaxSkills == 2      \* longest config.skills list explored
MaxCount == 2       \* largest SkillInvocation.count explored
MaxSinks == 2       \* most event sinks added to one Orchestrator
SinkRunSkills == 1  \* longest config.skills list of the runs explored with sinks
MaxChanges == 2     \* longest changes list of one config_change call
MaxKill == 2        \* largest params.count of one pod_kill call
MaxRows == 2        \* largest params.rows of update_load
MaxTables == 2      \* longest params.tables list of one update_load call
MaxServices == 2    \* longest params.services list, largest max_services
MaxConcurrent == 2  \* largest settings.max_concurrent of the daemon
MaxScheduled == 2   \* scheduled experiments in the daemon's config
MaxExperiments == 2 \* longest config.experiments list of one run command
MaxHosts == 2       \* most hosts of one server target
MaxServerRuns == 3  \* sequential run_experiment calls on one server agent
NumRuns == 2        \* concurrent run_experiment calls on one agent

\* ---------------------------------------------------------------- data
\* The skills DbAgent::new registers (a fixed set); db.table_lock has a
\* skill implementation but is not in the agent's list.
AgentSkills == {"db.insert_load", "db.update_load", "db.select_load", "db.config_change"}

\* The skill names the explored configs use: two the agent has, one it lacks.
SkillNames == {"db.insert_load", "db.config_change", "db.table_lock"}

TargetDomain == {"database"}

ParamValues == {"valid", "invalid"}

SkillInvocation == [skill_name : SkillNames, params : ParamValues, count : 0..MaxCount]

SeqsUpTo(S, n) == UNION {[1..k -> S] : k \in 0..n}

ExperimentConfig == [target : TargetDomain, skills : SeqsUpTo(SkillInvocation, MaxSkills)]

\* Agent::skill_by_name: Some(skill) iff the name is in the fixed skill set.
skill_by_name(name) == name \in AgentSkills

\* Skill::validate_params: rejects a malformed params value.
validate_params(params) == params = "valid"

\* A handle of config_change stamped with a misspelt name.
stamped_name_misspelt(name) ==
    CASE name = "db.insert_load"   -> "db.insert_load"
      [] name = "db.update_load"   -> "db.update_load"
      [] name = "db.select_load"   -> "db.select_load"
      [] name = "db.config_change" -> "db.config-change"

\* The literal the execute of the skill with this descriptor name passes to
\* RollbackHandle::new: insert_load.rs 178, update_load.rs 179,
\* select_load.rs 109, config_change.rs 157.
stamped_name(name) ==
    CASE name = "db.insert_load"   -> "db.insert_load"
      [] name = "db.update_load"   -> "db.update_load"
      [] name = "db.select_load"   -> "db.select_load"
      [] name = "db.config_change" -> "db.config_change"

\* RollbackHandle::new(skill_name, undo_state): a fresh id, the name the
\* skill stamps (every skill stamps its own descriptor name).
RollbackHandle(id, name) == [id |-> id, skill_name |-> name]

\* ExperimentEvent, one record shape for all variants.
Event(type, name, success) == [type |-> type, skill_name |-> name, success |-> success]
Started == Event("Started", "", TRUE)
SkillExecuted(name, ok) == Event("SkillExecuted", name, ok)
DurationWaitBegin == Event("DurationWaitBegin", "", TRUE)
RollbackStarted == Event("RollbackStarted", "", TRUE)
RollbackStepCompleted(name, ok) == Event("RollbackStepCompleted", name, ok)
Completed == Event("Completed", "", TRUE)
Failed(error) == Event("Failed", error, FALSE)

\* The two EventSink implementations of chaos-core: ChannelEventSink sends on
\* an unbounded channel, TracingEventSink writes a log line.
SinkKinds == {"channel", "tracing"}

\* The configs of the runs explored with event sinks added.
SinkRunConfig == [target : TargetDomain, skills : SeqsUpTo(SkillInvocation, SinkRunSkills)]

\* ExperimentReport: the fields the run decides.
ExperimentReport(st, executions, steps) ==
    [status |-> st, skill_executions |-> executions, rollback_steps |-> steps]

\* No report (run_experiment has not returned Ok).
NoReport == ExperimentReport("", <<>>, <<>>)

\* Agent::build_context of every agent: the shared connection and
\* params: serde_yaml::Value::Null, whatever invocation is being run.
build_context == [shared |-> "pool", params |-> "Null"]

\* The configuration parameters and values of the explored config_change calls.
ConfigParams == {"max_connections", "work_mem"}

ConfigValues == {"64", "128"}

\* ConfigEntry {param, value}: one requested change.
ConfigEntry == [param : ConfigParams, value : ConfigValues]

\* ConfigUndoEntry {param, original_value} (db_type left out: one database).
ConfigUndoEntry(param, original_value) == [param |-> param, original_value |-> original_value]

\* ChaosResult<RollbackHandle> of ConfigChangeSkill::execute; the undo state
\* of an Err is empty (an Err carries no handle).
SkillResult(tag, undo_state) == [tag |-> tag, undo_state |-> undo_state]

\* ---------------------------------------------------------------- state
VARIABLES
    agents,            \* Orchestrator.agents: the registered domains
    config,            \* the ExperimentConfig passed to run_experiment
    pc,                \* position of the run_experiment call
    result,            \* what run_experiment returned
    status,            \* experiment.status
    rollback_log,      \* experiment.rollback_log.entries
    skill_records,     \* skill_records of the report
    rollback_records,  \* rollback_records of the report
    events,            \* the events passed to Orchestrator::emit, in order
    inv,               \* index of the invocation execute_skills is at
    rep,               \* repetition of that invocation (1..count)
    execution_result,  \* execution_result of run_experiment
    handles,           \* the snapshot rollback_experiment iterates
    rb_idx,            \* index into handles
    execute_calls,     \* history: the calls of Skill::execute
    rollback_calls,    \* history: the handle ids Skill::rollback was called with
    experiments,       \* Orchestrator.experiments: the stored statuses
    failure_error,     \* failure_error of run_experiment (None = "none")
    report,            \* the ExperimentReport run_experiment returned
    agent_calls,       \* history: the Agent methods called on the target agent
    event_sinks,       \* Orchestrator.event_sinks: the kind of each sink
    receiver_open,     \* per sink: the receiving end has not been dropped
    received,          \* per sink: the events it has delivered, in order
    sk_pc,             \* position of the ConfigChangeSkill::execute call
    sk_changes,        \* params.changes of that call
    db_settings,       \* the configuration parameters of the target database
    db_original,       \* history: db_settings when execute was called
    undo_entries,      \* undo_entries of execute
    sk_idx,            \* index of the change execute is at
    sk_result,         \* what execute returned
    \* PodKillSkill (chaos-k8s/src/skills/pod_kill.rs) and its rollback step
    pk_pc,             \* position of the execute / rollback call
    pk_count,          \* params.count
    cluster_pods,      \* the pods of the namespace
    pk_targets,        \* targets of execute
    pk_idx,            \* index of the target / killed pod the loop is at
    killed_pods,       \* undo.killed_pods
    pk_log,            \* history: the levels of the log lines of rollback
    pk_result,         \* what rollback returned
    \* UpdateLoadSkill (chaos-db/src/skills/update_load.rs)
    ul_pc,             \* position of the execute / rollback call
    ul_tables,         \* params.tables
    ul_rows,           \* params.rows
    tables_to_target,  \* tables_to_target of execute
    db_rows,           \* the text column of the rows of the table, by pk
    db_rows_before,    \* history: db_rows when execute was called
    all_undo,          \* all_undo of execute, the undo state of the handle
    ul_idx,            \* index of the table / undo entry the loop is at
    ul_replay,         \* which rollback call with the handle this is (1, 2)
    ul_errors,         \* history: a restore statement of this rollback call failed
    db_rows_replayed,  \* history: db_rows when the current rollback call began
    \* NodeDrainSkill (chaos-k8s/src/skills/node_drain.rs)
    nd_pc,             \* position of the execute / rollback call
    nd_node_name,      \* params.node_name ("None" when absent)
    nodes,             \* the nodes of the cluster: spec.unschedulable, role
    nodes_before,      \* history: nodes when execute was called
    nd_target,         \* target_node of execute ("" before it is chosen)
    nd_undo,           \* undo.nodes of the handle
    nd_idx,            \* index of the node the rollback loop is at
    nd_errors,         \* history: the uncordon patches that failed
    \* ServiceStopSkill (chaos-server/src/skills/service_stop.rs)
    ss_pc,             \* position of the execute call
    ss_services,       \* params.services
    ss_max_services,   \* params.max_services
    running,           \* the services running on the host
    services_to_stop,  \* services_to_stop of execute
    ss_idx,            \* index of the service the loop is at
    stopped,           \* stopped of execute
    stop_cmds,         \* history: the services systemctl stop was issued for
    ss_result,         \* what execute returned
    \* concurrent run_experiment calls on one agent (orchestrator.rs)
    run_pos,           \* per run: its position
    lock_writer,       \* the run that holds the agent's write-lock (0: none)
    lock_readers,      \* the runs that hold a read-lock of the agent
    in_call,           \* per run: the agent or skill method it is inside
    run_handles,       \* per run: the handles in its rollback log still to replay
    run_result,        \* per run: execution_result of run_experiment
    run_records,       \* per run: its rollback step records (called / skipped)
    lock_queue,        \* the runs waiting for a guard of the agent's RwLock, in order
    agent_conn,        \* the agent's connection resource: the run whose initialize made it
    \* the daemon (chaos-cli/src/commands/daemon.rs)
    dm_pc,             \* position of the scheduler loop of execute
    dm_idx,            \* index of the scheduled experiment the tick is at
    dm_max_concurrent, \* config.settings.max_concurrent
    dm_enabled,        \* enabled, per scheduled experiment
    dm_signal,         \* the ctrl_c task has sent true on the shutdown channel
    dm_permits,        \* available permits of the semaphore
    dm_tasks,          \* the spawned experiment tasks that have not ended
    dm_last,           \* history: what the tick did with the last experiment
    pid_file,          \* the PID file exists
    \* the run command (chaos-cli/src/commands/run.rs)
    rc_pc,             \* position of execute
    rc_experiments,    \* config.experiments
    rc_dry_run,        \* args.dry_run
    rc_idx,            \* index of the experiment the loop is at
    rc_agents,         \* orchestrator.agents: the agent registered per domain
    rc_runs,           \* history: per run_experiment call, the agent it ran against
    rc_result,         \* what execute returned
    \* ServerAgent (chaos-server/src/agent.rs) under sequential runs
    sa_pc,             \* position of the run_experiment call on the agent
    sa_hosts,          \* config.hosts: the hosts are 1..sa_hosts
    sa_sessions,       \* self.sessions: the host of each open session
    sa_idx,            \* index of the host initialize is at
    sa_runs,           \* run_experiment calls that have returned
    sa_last,           \* what the last of them returned
    \* the dashboard of the TUI (chaos-tui/src/lib.rs, dashboard/mod.rs)
    dash_phase,        \* DashboardState.phase
    should_quit,       \* app.should_quit
    task_handle,       \* the spawned execution task: running, finished or aborted
    planner_todo,      \* the planner events the task has still to send
    experiment_todo,   \* the experiment events the task has still to send
    planner_rx,        \* the planner events queued in the channel
    experiment_rx,     \* the experiment events queued in the channel
    dash_handled       \* history: the experiment events the dashboard has handled

vars == <<agents, config, pc, result, status, rollback_log, skill_records,
          rollback_records, events, inv, rep, execution_result, handles,
          rb_idx, execute_calls, rollback_calls, experiments, failure_error,
          report, agent_calls, event_sinks, receiver_open, received,
          sk_pc, sk_changes, db_settings, db_original, undo_entries, sk_idx,
          sk_result,
          pk_pc, pk_count, cluster_pods, pk_targets, pk_idx, killed_pods,
          pk_log, pk_result,
          ul_pc, ul_tables, ul_rows, tables_to_target, db_rows, db_rows_before,
          all_undo, ul_idx,
          ul_replay, ul_errors, db_rows_replayed,
          nd_pc, nd_node_name, nodes, nodes_before, nd_target, nd_undo, nd_idx,
          nd_errors,
          ss_pc, ss_services, ss_max_services, running, services_to_stop,
          ss_idx, stopped, stop_cmds, ss_result,
          run_pos, lock_writer, lock_readers, in_call, run_handles, run_result,
          run_records, lock_queue, agent_conn,
          dm_pc, dm_idx, dm_max_concurrent, dm_enabled, dm_signal, dm_permits,
          dm_tasks, dm_last, pid_file,
          rc_pc, rc_experiments, rc_dry_run, rc_idx, rc_agents, rc_runs,
          rc_result,
          sa_pc, sa_hosts, sa_sessions, sa_idx, sa_runs, sa_last,
          dash_phase, should_quit, task_handle, planner_todo, experiment_todo,
          planner_rx, experiment_rx, dash_handled>>

sinkVars == <<event_sinks, receiver_open>>

orchVars == <<agents, config, pc, result, status, rollback_log, skill_records,
              rollback_records, events, inv, rep, execution_result, handles,
              rb_idx, execute_calls, rollback_calls, experiments, failure_error,
              report, agent_calls, event_sinks, receiver_open, received>>

configChangeVars == <<sk_pc, sk_changes, db_settings, db_original, undo_entries,
                      sk_idx, sk_result>>

podKillVars == <<pk_pc, pk_count, cluster_pods, pk_targets, pk_idx, killed_pods,
                 pk_log, pk_result>>

updateLoadVars == <<ul_pc, ul_tables, ul_rows, tables_to_target, db_rows,
                    db_rows_before, all_undo,
                    ul_idx, ul_replay, ul_errors, db_rows_replayed>>

nodeDrainVars == <<nd_pc, nd_node_name, nodes, nodes_before, nd_target, nd_undo,
                   nd_idx, nd_errors>>

serviceStopVars == <<ss_pc, ss_services, ss_max_services, running,
                     services_to_stop, ss_idx, stopped, stop_cmds, ss_result>>

lockVars == <<run_pos, lock_writer, lock_readers, in_call, run_handles, run_result,
          run_records, lock_queue, agent_conn>>

daemonVars == <<dm_pc, dm_idx, dm_max_concurrent, dm_enabled, dm_signal,
                dm_permits, dm_tasks, dm_last, pid_file>>

runCmdVars == <<rc_pc, rc_experiments, rc_dry_run, rc_idx, rc_agents, rc_runs,
                rc_result>>

serverAgentVars == <<sa_pc, sa_hosts, sa_sessions, sa_idx, sa_runs, sa_last>>

dashboardVars == <<dash_phase, should_quit, task_handle, planner_todo,
                   experiment_todo, planner_rx, experiment_rx, dash_handled>>

\* The state of the collaborators of the core: daemon, command line, dashboard.
collabVars == <<daemonVars, runCmdVars, serverAgentVars, dashboardVars>>

\* The skills' state.
coreSkillVars == <<configChangeVars, podKillVars, updateLoadVars, nodeDrainVars,
                   serviceStopVars>>

\* The collaborators other than the daemon, and other than the run command.
daemonRest == <<runCmdVars, serverAgentVars, dashboardVars>>

runCmdRest == <<daemonVars, serverAgentVars, dashboardVars>>

serverAgentRest == <<daemonVars, runCmdVars, dashboardVars>>

dashboardRest == <<daemonVars, runCmdVars, serverAgentVars>>

skillVars == <<configChangeVars, podKillVars, updateLoadVars, nodeDrainVars,
               serviceStopVars, lockVars, collabVars>>

runVars == <<status, rollback_log, skill_records, rollback_records, events,
             inv, rep, execution_result, handles, rb_idx, execute_calls,
             rollback_calls, experiments, failure_error, report, agent_calls,
             received>>

\* Orchestrator::new: no agent, no sink, no experiment; no call made yet.
OrchestratorNew ==
    /\ agents = {}
    /\ pc = "idle"
    /\ result = "none"
    /\ status = "NoExperiment"
    /\ rollback_log = <<>>
    /\ skill_records = <<>>
    /\ rollback_records = <<>>
    /\ events = <<>>
    /\ inv = 0
    /\ rep = 0
    /\ execution_result = "pending"
    /\ handles = <<>>
    /\ rb_idx = 0
    /\ execute_calls = <<>>
    /\ rollback_calls = <<>>
    /\ experiments = <<>>
    /\ failure_error = "none"
    /\ report = NoReport
    /\ agent_calls = <<>>
    /\ event_sinks = <<>>
    /\ receiver_open = <<>>
    /\ received = <<>>

\* No ConfigChangeSkill::execute call is under way.
SkillIdle ==
    /\ sk_pc = "idle"
    /\ sk_changes = <<>>
    /\ db_settings = [p \in ConfigParams |-> "64"]
    /\ db_original = [p \in ConfigParams |-> "64"]
    /\ undo_entries = <<>>
    /\ sk_idx = 0
    /\ sk_result = SkillResult("none", <<>>)

\* The pods of the explored namespace: one managed by a Deployment, one bare.
PodNames == {"web-1", "job-1"}

\* A pod: its name, whether metadata.owner_references has an entry, its phase.
Pod == [name : PodNames, has_owner : BOOLEAN, phase : {"Running", "Pending"}]

\* KilledPodInfo {name, has_owner} (namespace and owner names left out).
KilledPodInfo(pod) == [name |-> pod.name, has_owner |-> pod.has_owner]

\* No PodKillSkill call is under way.
PodKillIdle ==
    /\ pk_pc = "idle"
    /\ pk_count = 1
    /\ cluster_pods = {}
    /\ pk_targets = <<>>
    /\ pk_idx = 0
    /\ killed_pods = <<>>
    /\ pk_log = <<>>
    /\ pk_result = "none"

\* The table update_load is pointed at, and SQL NULL.
Tables == {"orders"}

\* The primary keys of the rows of the table.
RowKeys == {1, 2}

SqlNull == "<NULL>"

\* The text values a row's column may hold before the experiment.
ColumnValues == {SqlNull, "", "a"}

\* UpdateUndoEntry {table, pk_value, original_value}.
UpdateUndoEntry(table, pk_value, original_value) ==
    [table |-> table, pk_value |-> pk_value, original_value |-> original_value]

\* No UpdateLoadSkill call is under way.
UpdateLoadIdle ==
    /\ ul_pc = "idle"
    /\ ul_tables = <<>>
    /\ ul_rows = 1
    /\ tables_to_target = <<>>
    /\ db_rows = [k \in RowKeys |-> ""]
    /\ db_rows_before = [k \in RowKeys |-> ""]
    /\ all_undo = <<>>
    /\ ul_idx = 0
    /\ ul_replay = 0
    /\ ul_errors = FALSE
    /\ db_rows_replayed = [k \in RowKeys |-> ""]

\* The nodes of the explored cluster.
NodeNames == {"node-a", "node-b"}

\* A node: spec.unschedulable and whether it has a control-plane role label.
Node == [unschedulable : BOOLEAN, control_plane : BOOLEAN]

\* No NodeDrainSkill call is under way.
NodeDrainIdle ==
    /\ nd_pc = "idle"
    /\ nd_node_name = "None"
    /\ nodes = [n \in NodeNames |-> [unschedulable |-> FALSE, control_plane |-> FALSE]]
    /\ nodes_before = [n \in NodeNames |-> [unschedulable |-> FALSE, control_plane |-> FALSE]]
    /\ nd_target = ""
    /\ nd_undo = <<>>
    /\ nd_idx = 0
    /\ nd_errors = 0

\* The services of the explored host.
ServiceNames == {"sshd", "nginx", "dbus-broker"}

\* No ServiceStopSkill call is under way.
ServiceStopIdle ==
    /\ ss_pc = "idle"
    /\ ss_services = <<>>
    /\ ss_max_services = 1
    /\ running = {}
    /\ services_to_stop = <<>>
    /\ ss_idx = 0
    /\ stopped = <<>>
    /\ stop_cmds = <<>>
    /\ ss_result = "none"

\* The concurrent run_experiment calls.
Runs == 1..NumRuns

\* No concurrent call has started; the agent's RwLock is free.
LocksIdle ==
    /\ run_pos = [r \in Runs |-> "idle"]
    /\ lock_writer = 0
    /\ lock_readers = {}
    /\ in_call = [r \in Runs |-> "none"]
    /\ run_handles = [r \in Runs |-> 0]
    /\ run_result = [r \in Runs |-> "none"]
    /\ run_records = [r \in Runs |-> <<>>]
    /\ lock_queue = <<>>
    /\ agent_conn = 0

\* The scheduled experiments of the daemon's config.
Scheduled == 1..MaxScheduled

\* No daemon is running.
DaemonIdle ==
    /\ dm_pc = "idle"
    /\ dm_idx = 0
    /\ dm_max_concurrent = 0
    /\ dm_enabled = [i \in Scheduled |-> FALSE]
    /\ dm_signal = FALSE
    /\ dm_permits = 0
    /\ dm_tasks = <<>>
    /\ dm_last = "none"
    /\ pid_file = FALSE

\* TargetDomain (chaos-core/src/skill.rs): every variant.
AllTargetDomains == {"database", "kubernetes", "server"}

\* No agent registered for a domain.
NoAgent == [kind |-> "none", config |-> 0]

\* No run command is running.
RunCmdIdle ==
    /\ rc_pc = "idle"
    /\ rc_experiments = <<>>
    /\ rc_dry_run = FALSE
    /\ rc_idx = 0
    /\ rc_agents = [d \in AllTargetDomains |-> NoAgent]
    /\ rc_runs = <<>>
    /\ rc_result = "none"

\* No server agent has been built.
ServerAgentIdle ==
    /\ sa_pc = "idle"
    /\ sa_hosts = 0
    /\ sa_sessions = <<>>
    /\ sa_idx = 0
    /\ sa_runs = 0
    /\ sa_last = "none"

\* DashboardPhase: Failed carries the error, the other phases nothing.
DashboardPhase(tag, error) == [tag |-> tag, error |-> error]

\* No dashboard is shown.
DashboardIdle ==
    /\ dash_phase = DashboardPhase("none", "")
    /\ should_quit = FALSE
    /\ task_handle = "none"
    /\ planner_todo = <<>>
    /\ experiment_todo = <<>>
    /\ planner_rx = <<>>
    /\ experiment_rx = <<>>
    /\ dash_handled = <<>>

\* Every part of the system but g is in its initial state.
IdleExcept(g) ==
    /\ g = "orchestrator" \/ OrchestratorNew
    /\ g = "config_change" \/ SkillIdle
    /\ g = "pod_kill" \/ PodKillIdle
    /\ g = "update_load" \/ UpdateLoadIdle
    /\ g = "node_drain" \/ NodeDrainIdle
    /\ g = "service_stop" \/ ServiceStopIdle
    /\ g = "locks" \/ LocksIdle
    /\ g = "daemon" \/ DaemonIdle
    /\ g = "run_cmd" \/ RunCmdIdle
    /\ g = "server_agent" \/ ServerAgentIdle
    /\ g = "dashboard" \/ DashboardIdle

\* Orchestrator::new, and a caller about to call run_experiment(config).
Init ==
    /\ config \in ExperimentConfig
    /\ OrchestratorNew
    /\ IdleExcept("orchestrator")

\* ---------------------------------------------------------------- RollbackLog
\* A push that puts the handle in front of the entries.
push_front(entries, handle) == <<handle>> \o entries

\* RollbackLog::push
push(entries, handle) == Append(entries, handle)

\* A log iterated oldest first (the .rev() left out).
iter_forward(entries) == entries

\* RollbackLog::iter_reverse: most recent first.
iter_reverse(entries) == [i \in 1..Len(entries) |-> entries[Len(entries) + 1 - i]]

\* ---------------------------------------------------------------- events
\* ChaosError's Display (error.rs): the text e.to_string() yields.
to_string(e) ==
    CASE e = "Err:SkillExecution" -> "Skill execution failed"
      [] e = "Err:Connection" -> "Connection error"
      [] e = "Err:Discovery" -> "Discovery failed"
      [] e = "Err:Config" -> "Configuration error"
      [] e = "Err:Config:Unknown skill" -> "Configuration error: Unknown skill"
      [] e = "Err:Config:invalid params" -> "Configuration error: Invalid params"
      [] OTHER -> e

\* EventSink::emit of the two sinks: ChannelEventSink sends and ignores the
\* error of a closed channel (let _ = tx.send), TracingEventSink logs.
sink_emit(kind, open, queue, new) ==
    IF kind = "tracing" \/ open THEN queue \o new ELSE queue

\* An emit that stops at the first sink of the list.
emit_firstSinkOnly(evs) ==
    /\ events' = evs
    /\ received' = [i \in DOMAIN event_sinks |->
                      IF i = 1
                        THEN sink_emit(event_sinks[i], receiver_open[i], received[i],
                                       SubSeq(evs, Len(events) + 1, Len(evs)))
                        ELSE received[i]]

\* Orchestrator::emit, for the events that extend events to evs: every sink
\* of event_sinks gets each of them, in the order of the list.
emit(evs) ==
    /\ events' = evs
    /\ received' = [i \in DOMAIN event_sinks |->
                      sink_emit(event_sinks[i], receiver_open[i], received[i],
                                SubSeq(evs, Len(events) + 1, Len(evs)))]

\* ---------------------------------------------------------------- operations
\* Orchestrator::register_agent
register_agent(domain) ==
    /\ pc = "idle"
    /\ domain \notin agents
    /\ agents' = agents \cup {domain}
    /\ UNCHANGED <<config, pc, result, runVars, sinkVars, skillVars>>

\* Orchestrator::add_event_sink (&mut self: no run is under way)
add_event_sink(kind) ==
    /\ pc = "idle"
    /\ Len(event_sinks) < MaxSinks
    /\ event_sinks' = Append(event_sinks, kind)
    /\ receiver_open' = Append(receiver_open, TRUE)
    /\ received' = Append(received, <<>>)
    /\ UNCHANGED <<agents, config, pc, result, status, rollback_log, skill_records,
                   rollback_records, events, inv, rep, execution_result, handles,
                   rb_idx, execute_calls, rollback_calls, experiments,
                   failure_error, report, agent_calls, skillVars>>

\* The owner of the UnboundedReceiver of channel sink i drops it.
DropReceiver(i) ==
    /\ event_sinks[i] = "channel"
    /\ receiver_open[i]
    /\ receiver_open' = [receiver_open EXCEPT ![i] = FALSE]
    /\ UNCHANGED <<agents, config, pc, result, runVars, event_sinks, skillVars>>

\* The Started event emitted before the agent is looked up.
Start_emitBeforeLookup ==
    /\ pc = "idle"
    /\ emit(Append(events, Started))
    /\ IF config.target \notin agents
         THEN /\ pc' = "returned"
              /\ result' = "Err:Config"
              /\ UNCHANGED status
         ELSE /\ pc' = "initialize"
              /\ status' = "Pending"
              /\ UNCHANGED result
    /\ UNCHANGED <<agents, config, rollback_log, skill_records, rollback_records,
                   inv, rep, execution_result, handles, rb_idx, execute_calls,
                   rollback_calls, experiments, failure_error, report,
                   agent_calls, sinkVars, skillVars>>

\* run_experiment, lines 51-66: agent lookup, Experiment::new, emit Started.
Start ==
    /\ pc = "idle"
    /\ IF config.target \notin agents
         THEN /\ pc' = "returned"
              /\ result' = "Err:Config"
              /\ UNCHANGED <<status, events, received>>
         ELSE /\ pc' = "initialize"
              /\ status' = "Pending"
              /\ emit(Append(events, Started))
              /\ UNCHANGED result
    /\ UNCHANGED <<agents, config, rollback_log, skill_records, rollback_records,
                   inv, rep, execution_result, handles, rb_idx, execute_calls,
                   rollback_calls, experiments, failure_error, report,
                   agent_calls, sinkVars, skillVars>>

\* run_experiment, lines 68-75: agent.initialize().await?
Initialize ==
    /\ pc = "initialize"
    /\ agent_calls' = Append(agent_calls, "initialize")
    /\ \E ok \in BOOLEAN :
         IF ok
           THEN /\ status' = "Discovering"
                /\ pc' = "discover"
                /\ UNCHANGED result
           ELSE /\ pc' = "returned"
                /\ result' = "Err:Connection"
                /\ UNCHANGED status
    /\ UNCHANGED <<agents, config, rollback_log, skill_records, rollback_records,
                   events, received, inv, rep, execution_result, handles, rb_idx,
                   execute_calls, rollback_calls, experiments, failure_error,
                   report, sinkVars, skillVars>>

\* A discover that connects again (initialize called a second time).
Discover_reinitialize ==
    /\ pc = "discover"
    /\ agent_calls' = agent_calls \o <<"initialize", "discover">>
    /\ \E ok \in BOOLEAN :
         IF ok
           THEN /\ status' = "Executing"
                /\ pc' = "resolve"
                /\ inv' = 1
                /\ UNCHANGED result
           ELSE /\ pc' = "returned"
                /\ result' = "Err:Discovery"
                /\ UNCHANGED <<status, inv>>
    /\ UNCHANGED <<agents, config, rollback_log, skill_records, rollback_records,
                   events, received, rep, execution_result, handles, rb_idx,
                   execute_calls, rollback_calls, experiments, failure_error,
                   report, sinkVars, skillVars>>

\* run_experiment, lines 77-95: agent.discover().await?, then Executing.
Discover ==
    /\ pc = "discover"
    /\ agent_calls' = Append(agent_calls, "discover")
    /\ \E ok \in BOOLEAN :
         IF ok
           THEN /\ status' = "Executing"
                /\ pc' = "resolve"
                /\ inv' = 1
                /\ UNCHANGED result
           ELSE /\ pc' = "returned"
                /\ result' = "Err:Discovery"
                /\ UNCHANGED <<status, inv>>
    /\ UNCHANGED <<agents, config, rollback_log, skill_records, rollback_records,
                   events, received, rep, execution_result, handles, rb_idx,
                   execute_calls, rollback_calls, experiments, failure_error,
                   report, sinkVars, skillVars>>

\* An empty rollback log skips the rollback phase: no RollingBack, no
\* RollbackStarted.
BeginRollback_skipEmpty(evs) ==
    /\ IF rollback_log = <<>>
         THEN /\ emit(evs)
              /\ UNCHANGED status
         ELSE /\ status' = "RollingBack"
              /\ emit(Append(evs, RollbackStarted))
    /\ handles' = iter_reverse(rollback_log)
    /\ rb_idx' = 1
    /\ pc' = "rollback"

\* run_experiment, lines 123-130, and rollback_experiment, lines 250-252:
\* enter RollingBack, emit RollbackStarted, snapshot the log most recent first.
BeginRollback(evs) ==
    /\ status' = "RollingBack"
    /\ emit(Append(evs, RollbackStarted))
    /\ handles' = iter_reverse(rollback_log)
    /\ rb_idx' = 1
    /\ pc' = "rollback"

\* The soak entered whatever execute_skills returned (the is_ok test left out).
AfterExecute_alwaysSoak(res, evs) ==
    /\ execution_result' = res
    /\ status' = "WaitingDuration"
    /\ emit(Append(IF res = "Ok" THEN evs ELSE Append(evs, Failed(to_string(res))),
                   DurationWaitBegin))
    /\ pc' = "soak"
    /\ UNCHANGED <<handles, rb_idx>>

\* run_experiment, lines 98-130, once execute_skills has returned res:
\* emit Failed on Err; on Ok enter the soak, otherwise go on to the rollback.
AfterExecute(res, evs) ==
    /\ execution_result' = res
    /\ IF res = "Ok"
         THEN /\ status' = "WaitingDuration"
              /\ emit(Append(evs, DurationWaitBegin))
              /\ pc' = "soak"
              /\ UNCHANGED <<handles, rb_idx>>
         ELSE BeginRollback(Append(evs, Failed(to_string(res))))

\* The Config error of execute_skills propagated out of run_experiment
\* (execute_skills(..).await? instead of keeping the result).
ResolveSkill_propagate ==
    /\ pc = "resolve"
    /\ inv <= Len(config.skills)
    /\ agent_calls' = Append(agent_calls, "skill_by_name")
    /\ LET invocation == config.skills[inv] IN
         IF ~skill_by_name(invocation.skill_name) \/ ~validate_params(invocation.params)
           THEN /\ pc' = "returned"
                /\ result' = "Err:Config"
                /\ UNCHANGED <<inv, rep, status, events, received,
                               execution_result, handles, rb_idx>>
           ELSE IF invocation.count = 0
             THEN /\ inv' = inv + 1
                  /\ UNCHANGED <<pc, result, rep, status, events, received,
                                 execution_result, handles, rb_idx>>
             ELSE /\ pc' = "execute"
                  /\ rep' = 1
                  /\ UNCHANGED <<inv, result, status, events, received,
                                 execution_result, handles, rb_idx>>
    /\ UNCHANGED <<agents, config, rollback_log, skill_records,
                   rollback_records, execute_calls, rollback_calls, experiments,
                   failure_error, report, sinkVars, skillVars>>

\* execute_skills, lines 189-194: resolve the skill of the next invocation and
\* validate its params; an invocation with count 0 has no repetition.
ResolveSkill ==
    /\ pc = "resolve"
    /\ inv <= Len(config.skills)
    /\ agent_calls' = Append(agent_calls, "skill_by_name")
    /\ LET invocation == config.skills[inv] IN
         IF ~skill_by_name(invocation.skill_name)
           THEN /\ AfterExecute("Err:Config:Unknown skill", events)
                /\ UNCHANGED <<inv, rep>>
           ELSE IF ~validate_params(invocation.params)
             THEN /\ AfterExecute("Err:Config:invalid params", events)
                  /\ UNCHANGED <<inv, rep>>
             ELSE IF invocation.count = 0
               THEN /\ inv' = inv + 1
                    /\ UNCHANGED <<pc, rep, status, events, received,
                                   execution_result, handles, rb_idx>>
               ELSE /\ pc' = "execute"
                    /\ rep' = 1
                    /\ UNCHANGED <<inv, status, events, received,
                                   execution_result, handles, rb_idx>>
    /\ UNCHANGED <<agents, config, result, rollback_log, skill_records,
                   rollback_records, execute_calls, rollback_calls, experiments,
                   failure_error, report, sinkVars, skillVars>>

\* One repetition too many (0..=count instead of 0..count).
RepsRemaining_inclusive(r, count) == r <= count

\* execute_skills, line 196: for _ in 0..invocation.count; r repetitions done.
RepsRemaining(r, count) == r < count

\* The loop going on to the next invocation after a failed execute
\* (continue instead of return Err).
ExecuteErr_continue(name) ==
    /\ emit(Append(events, SkillExecuted(name, FALSE)))
    /\ skill_records' = Append(skill_records,
                               [skill_name |-> name, success |-> FALSE, error |-> "execute failed"])
    /\ inv' = inv + 1
    /\ pc' = "resolve"
    /\ UNCHANGED <<rep, rollback_log, status, execution_result, handles, rb_idx>>

\* execute_skills, lines 217-235: Err arm of skill.execute: emit
\* SkillExecuted{success=false}, record the failure, return Err.
ExecuteErr(name) ==
    /\ skill_records' = Append(skill_records,
                               [skill_name |-> name, success |-> FALSE, error |-> "execute failed"])
    /\ AfterExecute("Err:SkillExecution", Append(events, SkillExecuted(name, FALSE)))
    /\ UNCHANGED <<inv, rep, rollback_log>>

\* execute_skills, lines 200-216: Ok arm of skill.execute: emit
\* SkillExecuted{success=true}, push the handle, record; then the loops go on.
ExecuteOk(name, id, count) ==
    /\ emit(Append(events, SkillExecuted(name, TRUE)))
    /\ rollback_log' = push(rollback_log, RollbackHandle(id, stamped_name(name)))
    /\ skill_records' = Append(skill_records,
                               [skill_name |-> name, success |-> TRUE, error |-> "none"])
    /\ IF RepsRemaining(rep, count)
         THEN /\ rep' = rep + 1
              /\ UNCHANGED <<pc, inv>>
         ELSE /\ inv' = inv + 1
              /\ pc' = "resolve"
              /\ UNCHANGED rep
    /\ UNCHANGED <<status, execution_result, handles, rb_idx>>

\* execute_skills, lines 196-237: one repetition: build_context, then
\* skill.execute(&ctx) with the context the agent built.
ExecuteRep ==
    /\ pc = "execute"
    /\ agent_calls' = Append(agent_calls, "build_context")
    /\ LET invocation == config.skills[inv]
           ctx == build_context IN
       \E outcome \in {"ok", "execute_err", "context_err"} :
         CASE outcome = "context_err" ->
                /\ AfterExecute("Err:Connection", events)
                /\ UNCHANGED <<inv, rep, rollback_log, skill_records, execute_calls>>
           [] outcome = "ok" ->
                /\ execute_calls' = Append(execute_calls,
                       [inv |-> inv, rep |-> rep, ok |-> TRUE, params |-> ctx.params])
                /\ ExecuteOk(invocation.skill_name, Len(execute_calls) + 1, invocation.count)
           [] outcome = "execute_err" ->
                /\ execute_calls' = Append(execute_calls,
                       [inv |-> inv, rep |-> rep, ok |-> FALSE, params |-> ctx.params])
                /\ ExecuteErr(invocation.skill_name)
    /\ UNCHANGED <<agents, config, result, rollback_records, rollback_calls,
                   experiments, failure_error, report, sinkVars, skillVars>>

\* execute_skills, line 240, then run_experiment, lines 102-121: every
\* invocation done, Ok(()) returned, the soak begins.
ExecuteDone ==
    /\ pc = "resolve"
    /\ inv > Len(config.skills)
    /\ AfterExecute("Ok", events)
    /\ UNCHANGED <<agents, config, result, rollback_log, skill_records,
                   rollback_records, inv, rep, execute_calls, rollback_calls,
                   experiments, failure_error, report, agent_calls, sinkVars,
                   skillVars>>

\* run_experiment, lines 120-130: the sleep of config.duration is over.
SoakElapsed ==
    /\ pc = "soak"
    /\ BeginRollback(events)
    /\ UNCHANGED <<agents, config, result, rollback_log, skill_records,
                   rollback_records, inv, rep, execution_result, execute_calls,
                   rollback_calls, experiments, failure_error, report,
                   agent_calls, sinkVars, skillVars>>

\* The loop left at the first failed rollback (break on Err).
RollbackOutcome_abortOnFailure(handle, success) ==
    /\ rollback_records' = Append(rollback_records,
           [skill_name |-> handle.skill_name, success |-> success,
            error |-> IF success THEN "none" ELSE "rollback failed"])
    /\ emit(Append(events, RollbackStepCompleted(handle.skill_name, success)))
    /\ rb_idx' = IF success THEN rb_idx + 1 ELSE Len(handles) + 1

\* rollback_experiment, lines 282-308: the result of skill.rollback is
\* recorded and emitted, and the loop goes on with the next handle.
RollbackOutcome(handle, success) ==
    /\ rollback_records' = Append(rollback_records,
           [skill_name |-> handle.skill_name, success |-> success,
            error |-> IF success THEN "none" ELSE "rollback failed"])
    /\ emit(Append(events, RollbackStepCompleted(handle.skill_name, success)))
    /\ rb_idx' = rb_idx + 1

\* A skipped handle announced with a RollbackStepCompleted event like a
\* called one.
RecordSkipped_emit(handle, error) ==
    /\ rollback_records' = Append(rollback_records,
           [skill_name |-> handle.skill_name, success |-> FALSE, error |-> error])
    /\ emit(Append(events, RollbackStepCompleted(handle.skill_name, FALSE)))
    /\ rb_idx' = rb_idx + 1
    /\ UNCHANGED rollback_calls

\* rollback_experiment, lines 254-280: a handle whose skill is not found,
\* or whose context cannot be built, gets a failed step record and the
\* loop continues; nothing is emitted and Skill::rollback is not called.
RecordSkipped(handle, error) ==
    /\ rollback_records' = Append(rollback_records,
           [skill_name |-> handle.skill_name, success |-> FALSE, error |-> error])
    /\ rb_idx' = rb_idx + 1
    /\ UNCHANGED <<events, received, rollback_calls>>

\* rollback_experiment, lines 253-308: one handle of the snapshot.
RollbackStep ==
    /\ pc = "rollback"
    /\ rb_idx <= Len(handles)
    /\ LET handle == handles[rb_idx] IN
         IF ~skill_by_name(handle.skill_name)
           THEN /\ RecordSkipped(handle, "skill not found")
                /\ agent_calls' = Append(agent_calls, "skill_by_name")
           ELSE /\ agent_calls' = agent_calls \o <<"skill_by_name", "build_context">>
                /\ \E outcome \in {"ok", "rollback_err", "context_err"} :
                     IF outcome = "context_err"
                       THEN RecordSkipped(handle, "context build failed")
                       ELSE /\ rollback_calls' = Append(rollback_calls, handle.id)
                            /\ RollbackOutcome(handle, outcome = "ok")
    /\ UNCHANGED <<agents, config, pc, result, status, rollback_log, skill_records,
                   inv, rep, execution_result, handles, execute_calls, experiments,
                   failure_error, report, sinkVars, skillVars>>

\* A final status that is Failed as soon as any failure was recorded in the
\* run, a failed rollback step included.
failure_of_anyRecorded(res, steps) ==
    IF res # "Ok" THEN to_string(res)
    ELSE IF \E i \in DOMAIN steps : ~steps[i].success THEN "Rollback failed"
    ELSE "none"

\* run_experiment, line 133: failure_error = execution_result.err().map(to_string);
\* the rollback step records play no part.
failure_of(res, steps) == IF res = "Ok" THEN "none" ELSE to_string(res)

\* run_experiment, lines 157-161: the status string of the report.
report_status(st, err) ==
    CASE st = "Completed" -> "completed"
      [] st = "Failed" -> "failed: " \o err
      [] OTHER -> st

\* Failed emitted at the end of the run, right before Completed, instead of
\* when execute_skills returns.
Complete_failedBeforeCompleted ==
    /\ pc = "rollback"
    /\ rb_idx > Len(handles)
    /\ failure_error' = failure_of(execution_result, rollback_records)
    /\ status' = IF failure_error' = "none" THEN "Completed" ELSE "Failed"
    /\ emit(IF execution_result = "Ok"
              THEN Append(events, Completed)
              ELSE events \o <<Failed(to_string(execution_result)), Completed>>)
    /\ report' = ExperimentReport(report_status(status', failure_error'),
                                  skill_records, rollback_records)
    /\ experiments' = Append(experiments, status')
    /\ pc' = "returned"
    /\ result' = "Ok"
    /\ UNCHANGED <<agents, config, rollback_log, skill_records, rollback_records,
                   inv, rep, execution_result, handles, rb_idx, execute_calls,
                   rollback_calls, agent_calls, sinkVars, skillVars>>

\* run_experiment, lines 132-178: final status, emit Completed, build the
\* report, store the experiment, return Ok(report).
Complete ==
    /\ pc = "rollback"
    /\ rb_idx > Len(handles)
    /\ failure_error' = failure_of(execution_result, rollback_records)
    /\ status' = IF failure_error' = "none" THEN "Completed" ELSE "Failed"
    /\ emit(Append(events, Completed))
    /\ report' = ExperimentReport(report_status(status', failure_error'),
                                  skill_records, rollback_records)
    /\ experiments' = Append(experiments, status')
    /\ pc' = "returned"
    /\ result' = "Ok"
    /\ UNCHANGED <<agents, config, rollback_log, skill_records, rollback_records,
                   inv, rep, execution_result, handles, rb_idx, execute_calls,
                   rollback_calls, agent_calls, sinkVars, skillVars>>

\* The call is suspended at an .await that can return Pending: initialize,
\* discover, build_context/execute, the soak sleep, build_context/rollback.
Suspended ==
    \/ pc \in {"initialize", "discover", "execute", "soak"}
    \/ /\ pc = "rollback"
       /\ rb_idx <= Len(handles)
       /\ skill_by_name(handles[rb_idx].skill_name)

\* run_app, chaos-tui/src/lib.rs lines 115-123: Ctrl+C / Ctrl+W in the
\* dashboard abort the task that runs run_experiment; the future is dropped
\* at the suspension point it is at and nothing after it runs.
Cancel ==
    /\ Suspended
    /\ pc' = "aborted"
    /\ UNCHANGED <<agents, config, result, runVars, sinkVars, skillVars>>

Next ==
    \/ \E d \in TargetDomain : register_agent(d)
    \/ Start
    \/ Initialize
    \/ Discover
    \/ ResolveSkill
    \/ ExecuteRep
    \/ ExecuteDone
    \/ SoakElapsed
    \/ RollbackStep
    \/ Complete
    \/ Cancel

Spec == Init /\ [][Next]_vars

\* ---------------------------------------------------------------- runs with event sinks
\* Orchestrator::new, sinks still to be added, a caller about to call
\* run_experiment(config) with a short config.
InitSinks ==
    /\ config \in SinkRunConfig
    /\ OrchestratorNew
    /\ IdleExcept("orchestrator")

NextSinks ==
    \/ \E kind \in SinkKinds : add_event_sink(kind)
    \/ \E i \in DOMAIN event_sinks : DropReceiver(i)
    \/ Next

SpecSinks == InitSinks /\ [][NextSinks]_vars

\* ---------------------------------------------------------------- ConfigChangeSkill::execute
\* The reverse of what the undo entries record: each entry's original value
\* written back, the most recent entry first.
RECURSIVE Undo(_, _)
Undo(settings, entries) ==
    IF entries = <<>> THEN settings
    ELSE Undo([settings EXCEPT ![entries[Len(entries)].param] = entries[Len(entries)].original_value],
              SubSeq(entries, 1, Len(entries) - 1))

\* execute, lines 50-59: the pool and the params are there, undo_entries is
\* a new Vec.
ConfigChangeBegin ==
    /\ sk_pc = "idle"
    /\ sk_pc' = "loop"
    /\ db_original' = db_settings
    /\ undo_entries' = <<>>
    /\ sk_idx' = 1
    /\ UNCHANGED <<orchVars, collabVars, podKillVars, updateLoadVars, nodeDrainVars,
                   serviceStopVars, lockVars, sk_changes,
                   db_settings, sk_result>>

\* execute, lines 61-152: one change: read the current value (?), apply the
\* new one (?), push the undo entry.  Either ? returns the Err and drops
\* undo_entries.
ConfigChangeStep ==
    /\ sk_pc = "loop"
    /\ sk_idx <= Len(sk_changes)
    /\ LET change == sk_changes[sk_idx] IN
       \E outcome \in {"ok", "read_err", "set_err"} :
         IF outcome = "ok"
           THEN /\ db_settings' = [db_settings EXCEPT ![change.param] = change.value]
                /\ undo_entries' = Append(undo_entries,
                                          ConfigUndoEntry(change.param, db_settings[change.param]))
                /\ sk_idx' = sk_idx + 1
                /\ UNCHANGED <<sk_pc, sk_result>>
           ELSE /\ sk_pc' = "returned"
                /\ sk_result' = SkillResult("Err", <<>>)
                /\ UNCHANGED <<db_settings, undo_entries, sk_idx>>
    /\ UNCHANGED <<orchVars, collabVars, podKillVars, updateLoadVars, nodeDrainVars,
                   serviceStopVars, lockVars, sk_changes,
                   db_original>>

\* execute, lines 154-157: Ok(RollbackHandle::new("db.config_change", undo_state)).
ConfigChangeReturn ==
    /\ sk_pc = "loop"
    /\ sk_idx > Len(sk_changes)
    /\ sk_pc' = "returned"
    /\ sk_result' = SkillResult("Ok", undo_entries)
    /\ UNCHANGED <<orchVars, collabVars, podKillVars, updateLoadVars, nodeDrainVars,
                   serviceStopVars, lockVars, sk_changes,
                   db_settings, db_original, undo_entries, sk_idx>>

\* A database with some settings, and a caller about to call execute with
\* some list of changes.
InitSkill ==
    /\ config = [target |-> "database", skills |-> <<>>]
    /\ IdleExcept("config_change")
    /\ sk_pc = "idle"
    /\ sk_changes \in SeqsUpTo(ConfigEntry, MaxChanges)
    /\ db_settings \in [ConfigParams -> ConfigValues]
    /\ db_original = db_settings
    /\ undo_entries = <<>>
    /\ sk_idx = 0
    /\ sk_result = SkillResult("none", <<>>)

NextSkill ==
    \/ ConfigChangeBegin
    \/ ConfigChangeStep
    \/ ConfigChangeReturn

SpecSkill == InitSkill /\ [][NextSkill]_vars

\* ---------------------------------------------------------------- PodKillSkill
\* The sequences of k different elements of S (choose_multiple).
Arrangements(S, k) ==
    {t \in [1..k -> S] : \A i, j \in 1..k : t[i] = t[j] => i = j}

Min(a, b) == IF a < b THEN a ELSE b

\* execute, lines 61-100: list the pods, keep the Running ones, choose
\* min(count, len) of them at random.
PodKillExecuteBegin ==
    /\ pk_pc = "idle"
    /\ LET running_pods == {p \in cluster_pods : p.phase = "Running"} IN
       \E list_ok \in BOOLEAN :
         IF ~list_ok \/ running_pods = {}
           THEN /\ pk_pc' = "execute_err"
                /\ UNCHANGED <<pk_targets, pk_idx>>
           ELSE /\ pk_targets' \in Arrangements(running_pods,
                                                  Min(pk_count, Cardinality(running_pods)))
                /\ pk_idx' = 1
                /\ pk_pc' = "kill"
    /\ UNCHANGED <<orchVars, collabVars, configChangeVars, updateLoadVars, nodeDrainVars,
                   serviceStopVars, lockVars, pk_count, cluster_pods,
                   killed_pods, pk_log, pk_result>>

\* execute, lines 104-136: one target: its KilledPodInfo (has_owner =
\* owner_ref.is_some()), the delete; a deleted pod is pushed to killed.
PodKillDelete ==
    /\ pk_pc = "kill"
    /\ pk_idx <= Len(pk_targets)
    /\ LET pod == pk_targets[pk_idx] IN
       \E delete_ok \in BOOLEAN :
         IF delete_ok
           THEN /\ cluster_pods' = cluster_pods \ {pod}
                /\ killed_pods' = Append(killed_pods, KilledPodInfo(pod))
           ELSE UNCHANGED <<cluster_pods, killed_pods>>
    /\ pk_idx' = pk_idx + 1
    /\ UNCHANGED <<orchVars, collabVars, configChangeVars, updateLoadVars, nodeDrainVars,
                   serviceStopVars, lockVars, pk_pc, pk_count, pk_targets,
                   pk_log, pk_result>>

\* execute, lines 138-144: Ok(RollbackHandle::new("k8s.pod_kill", undo_state)).
PodKillExecuteReturn ==
    /\ pk_pc = "kill"
    /\ pk_idx > Len(pk_targets)
    /\ pk_pc' = "executed"
    /\ UNCHANGED <<orchVars, collabVars, configChangeVars, updateLoadVars, nodeDrainVars,
                   serviceStopVars, lockVars, pk_count, cluster_pods, pk_targets,
                   pk_idx, killed_pods, pk_log, pk_result>>

\* rollback, lines 147-154: the client and the undo state of the handle.
PodKillRollbackBegin ==
    /\ pk_pc = "executed"
    /\ pk_pc' = "rollback"
    /\ pk_idx' = 1
    /\ UNCHANGED <<orchVars, collabVars, configChangeVars, updateLoadVars, nodeDrainVars,
                   serviceStopVars, lockVars, pk_count, cluster_pods, pk_targets,
                   killed_pods, pk_log, pk_result>>

\* rollback, lines 158-191: one killed pod: with an owner, list the pods and
\* log what is running (info, or error when the list fails); without one,
\* log the warning.  Nothing else is done.
PodKillRollbackStep ==
    /\ pk_pc = "rollback"
    /\ pk_idx <= Len(killed_pods)
    /\ IF killed_pods[pk_idx].has_owner
         THEN \E list_ok \in BOOLEAN :
                pk_log' = Append(pk_log, IF list_ok THEN "info" ELSE "error")
         ELSE pk_log' = Append(pk_log, "warn")
    /\ pk_idx' = pk_idx + 1
    /\ UNCHANGED <<orchVars, collabVars, configChangeVars, updateLoadVars, nodeDrainVars,
                   serviceStopVars, lockVars, pk_pc, pk_count, cluster_pods,
                   pk_targets, killed_pods, pk_result>>

\* rollback, line 193: Ok(()).
PodKillRollbackReturn ==
    /\ pk_pc = "rollback"
    /\ pk_idx > Len(killed_pods)
    /\ pk_result' = "Ok"
    /\ pk_pc' = "rolled_back"
    /\ UNCHANGED <<orchVars, collabVars, configChangeVars, updateLoadVars, nodeDrainVars,
                   serviceStopVars, lockVars, pk_count, cluster_pods, pk_targets,
                   pk_idx, killed_pods, pk_log>>

\* rollback_experiment, lines 282-308, for the handle of pod_kill: the
\* rollback step is recorded with success = (rollback returned Ok).
PodKillRecordStep ==
    /\ pk_pc = "rolled_back"
    /\ RollbackOutcome(RollbackHandle(1, "k8s.pod_kill"), pk_result = "Ok")
    /\ pk_pc' = "recorded"
    /\ UNCHANGED <<agents, config, pc, result, status, rollback_log, skill_records,
                   inv, rep, execution_result, handles, execute_calls,
                   rollback_calls, experiments, failure_error, report,
                   agent_calls, sinkVars, collabVars, configChangeVars,
                   updateLoadVars, nodeDrainVars, serviceStopVars, lockVars, pk_count,
                   cluster_pods, pk_targets, pk_idx, killed_pods, pk_log,
                   pk_result>>

\* A namespace with some pods, and a caller about to call execute.
InitPodKill ==
    /\ config = [target |-> "database", skills |-> <<>>]
    /\ IdleExcept("pod_kill")
    /\ pk_pc = "idle"
    /\ pk_count \in 1..MaxKill
    /\ cluster_pods \in {c \in SUBSET Pod : \A p, q \in c : p.name = q.name => p = q}
    /\ pk_targets = <<>>
    /\ pk_idx = 0
    /\ killed_pods = <<>>
    /\ pk_log = <<>>
    /\ pk_result = "none"

NextPodKill ==
    \/ PodKillExecuteBegin
    \/ PodKillDelete
    \/ PodKillExecuteReturn
    \/ PodKillRollbackBegin
    \/ PodKillRollbackStep
    \/ PodKillRollbackReturn
    \/ PodKillRecordStep

SpecPodKill == InitPodKill /\ [][NextPodKill]_vars

\* ---------------------------------------------------------------- UpdateLoadSkill
\* The value execute writes into the column (line 157).
Sentinel == "chaos_modified"

\* How many calls of rollback with the one handle are followed.
MaxReplays == 2

\* row.try_get::<String, _>(1).unwrap_or_default(), line 155: a NULL column
\* does not decode as a String, and the default of String is "".
try_get_string(v) == IF v = SqlNull THEN "" ELSE v

\* The elements of a set of numbers, in ascending order.
RECURSIVE Ascending(_)
Ascending(S) ==
    IF S = {} THEN <<>>
    ELSE LET m == CHOOSE x \in S : \A y \in S : x <= y
         IN  <<m>> \o Ascending(S \ {m})

\* The undo entries of the rows of one table, in the order of the fetched
\* rows: lines 147-171 for every row whose UPDATE succeeded.
RECURSIVE undo_of(_, _, _, _)
undo_of(table, pks, updated, rows) ==
    IF pks = <<>> THEN <<>>
    ELSE (IF Head(pks) \in updated
            THEN <<UpdateUndoEntry(table, Head(pks), try_get_string(rows[Head(pks)]))>>
            ELSE <<>>)
         \o undo_of(table, Tail(pks), updated, rows)

\* The base tables the catalogue of the database lists (lines 60-74).
catalogue_tables == <<"orders">>

\* execute, lines 50-84: the tables to target: the ones of the params, or,
\* when none is given, the ones the catalogue lists.
UpdateLoadBegin ==
    /\ ul_pc = "idle"
    /\ IF ul_tables = <<>>
         THEN \E list_ok \in BOOLEAN :
                IF list_ok
                  THEN /\ tables_to_target' = catalogue_tables
                       /\ ul_pc' = "execute"
                  ELSE /\ tables_to_target' = <<>>
                       /\ ul_pc' = "execute_err"
         ELSE /\ tables_to_target' = ul_tables
              /\ ul_pc' = "execute"
    /\ ul_idx' = 1
    /\ db_rows_before' = db_rows
    /\ UNCHANGED <<orchVars, collabVars, configChangeVars, podKillVars, nodeDrainVars,
                   serviceStopVars, lockVars, ul_tables, ul_rows, db_rows,
                   all_undo, ul_replay, ul_errors, db_rows_replayed>>

\* execute, lines 86-175: one table of the loop.  A failed catalogue query
\* returns Err with the ? (all_undo is dropped); a failed fetch of the rows
\* skips the table; otherwise up to params.rows rows are fetched, each is
\* updated to the sentinel, and each successful UPDATE pushes an undo
\* entry with the value read by the fetch.
UpdateLoadTable ==
    /\ ul_pc = "execute"
    /\ ul_idx <= Len(tables_to_target)
    /\ \E columns_ok, fetch_ok \in BOOLEAN :
         IF ~columns_ok
           THEN /\ ul_pc' = "execute_err"
                /\ UNCHANGED <<db_rows, all_undo, ul_idx>>
           ELSE IF ~fetch_ok
           THEN /\ ul_idx' = ul_idx + 1
                /\ UNCHANGED <<ul_pc, db_rows, all_undo>>
           ELSE \E fetched \in SUBSET RowKeys :
                  /\ Cardinality(fetched) = Min(ul_rows, Cardinality(RowKeys))
                  /\ \E updated \in SUBSET fetched :
                       /\ db_rows' = [k \in RowKeys |->
                                        IF k \in updated THEN Sentinel ELSE db_rows[k]]
                       /\ all_undo' = all_undo \o undo_of(tables_to_target[ul_idx],
                                                            Ascending(fetched), updated,
                                                            db_rows)
                  /\ ul_idx' = ul_idx + 1
                  /\ UNCHANGED ul_pc
    /\ UNCHANGED <<orchVars, collabVars, configChangeVars, podKillVars, nodeDrainVars,
                   serviceStopVars, lockVars, ul_tables, ul_rows, tables_to_target,
                   db_rows_before, ul_replay, ul_errors, db_rows_replayed>>

\* execute, lines 177-180: Ok(RollbackHandle::new("db.update_load", all_undo)).
UpdateLoadReturn ==
    /\ ul_pc = "execute"
    /\ ul_idx > Len(tables_to_target)
    /\ ul_pc' = "executed"
    /\ UNCHANGED <<orchVars, collabVars, configChangeVars, podKillVars, nodeDrainVars,
                   serviceStopVars, lockVars, ul_tables, ul_rows, tables_to_target,
                   db_rows, db_rows_before, all_undo, ul_idx, ul_replay, ul_errors,
                   db_rows_replayed>>

\* rollback, lines 182-190: a call of rollback with the handle of execute:
\* the first one, or a replay after an earlier call returned.
UpdateLoadRollbackBegin ==
    /\ ul_pc \in {"executed", "rolled_back"}
    /\ ul_replay < MaxReplays
    /\ ul_pc' = "rollback"
    /\ ul_replay' = ul_replay + 1
    /\ ul_idx' = 1
    /\ ul_errors' = FALSE
    /\ db_rows_replayed' = db_rows
    /\ UNCHANGED <<orchVars, collabVars, configChangeVars, podKillVars, nodeDrainVars,
                   serviceStopVars, lockVars, ul_tables, ul_rows, tables_to_target,
                   db_rows, db_rows_before, all_undo>>

\* The UPDATE of rollback for one undo entry (lines 193-196): the column of
\* the row is set to the quoted original_value.
restore(rows, entry) ==
    [rows EXCEPT ![entry.pk_value] = entry.original_value]

\* rollback, lines 192-199: one undo entry, oldest first; a failed UPDATE
\* is logged and the loop goes on.
UpdateLoadRollbackEntry ==
    /\ ul_pc = "rollback"
    /\ ul_idx <= Len(all_undo)
    /\ \E update_ok \in BOOLEAN :
         IF update_ok
           THEN /\ db_rows' = restore(db_rows, all_undo[ul_idx])
                /\ UNCHANGED ul_errors
           ELSE /\ ul_errors' = TRUE
                /\ UNCHANGED db_rows
    /\ ul_idx' = ul_idx + 1
    /\ UNCHANGED <<orchVars, collabVars, configChangeVars, podKillVars, nodeDrainVars,
                   serviceStopVars, lockVars, ul_pc, ul_tables, ul_rows,
                   tables_to_target, db_rows_before, all_undo, ul_replay,
                   db_rows_replayed>>

\* rollback, line 201: Ok(()).
UpdateLoadRollbackReturn ==
    /\ ul_pc = "rollback"
    /\ ul_idx > Len(all_undo)
    /\ ul_pc' = "rolled_back"
    /\ UNCHANGED <<orchVars, collabVars, configChangeVars, podKillVars, nodeDrainVars,
                   serviceStopVars, lockVars, ul_tables, ul_rows, tables_to_target,
                   db_rows, db_rows_before, all_undo, ul_idx, ul_replay, ul_errors,
                   db_rows_replayed>>

\* The table with its rows, and a caller about to call execute.
InitUpdateLoad ==
    /\ config = [target |-> "database", skills |-> <<>>]
    /\ IdleExcept("update_load")
    /\ ul_pc = "idle"
    /\ ul_tables \in SeqsUpTo(Tables, MaxTables)
    /\ ul_rows \in 1..MaxRows
    /\ tables_to_target = <<>>
    /\ db_rows \in [RowKeys -> ColumnValues]
    /\ db_rows_before = db_rows
    /\ all_undo = <<>>
    /\ ul_idx = 0
    /\ ul_replay = 0
    /\ ul_errors = FALSE
    /\ db_rows_replayed = db_rows

NextUpdateLoad ==
    \/ UpdateLoadBegin
    \/ UpdateLoadTable
    \/ UpdateLoadReturn
    \/ UpdateLoadRollbackBegin
    \/ UpdateLoadRollbackEntry
    \/ UpdateLoadRollbackReturn

SpecUpdateLoad == InitUpdateLoad /\ [][NextUpdateLoad]_vars

\* ---------------------------------------------------------------- NodeDrainSkill
\* The merge patch {"spec": {"unschedulable": value}} applied to a node.
patch_unschedulable(ns, node_name, value) ==
    [ns EXCEPT ![node_name].unschedulable = value]

\* execute, lines 41-97: the target node: params.node_name as given, or a
\* random one of the schedulable worker nodes the list returns.
NodeDrainPick ==
    /\ nd_pc = "idle"
    /\ nodes_before' = nodes
    /\ IF nd_node_name # "None"
         THEN /\ nd_target' = nd_node_name
              /\ nd_pc' = "cordon"
         ELSE LET schedulable == {n \in NodeNames : /\ ~nodes[n].unschedulable
                                                     /\ ~nodes[n].control_plane} IN
              \E list_ok \in BOOLEAN :
                IF ~list_ok \/ schedulable = {}
                  THEN /\ nd_pc' = "execute_err"
                       /\ UNCHANGED nd_target
                  ELSE /\ nd_target' \in schedulable
                       /\ nd_pc' = "cordon"
    /\ UNCHANGED <<orchVars, collabVars, configChangeVars, podKillVars, updateLoadVars,
                   serviceStopVars, lockVars, nd_node_name, nodes, nd_undo, nd_idx,
                   nd_errors>>

\* execute, lines 99-126: the cordon patch; on success the handle
\* "k8s.node_drain" with undo.nodes = [target_node], on failure Err.
NodeDrainCordon ==
    /\ nd_pc = "cordon"
    /\ \E patch_ok \in BOOLEAN :
         IF patch_ok
           THEN /\ nodes' = patch_unschedulable(nodes, nd_target, TRUE)
                /\ nd_undo' = <<nd_target>>
                /\ nd_pc' = "executed"
           ELSE /\ nd_pc' = "execute_err"
                /\ UNCHANGED <<nodes, nd_undo>>
    /\ UNCHANGED <<orchVars, collabVars, configChangeVars, podKillVars, updateLoadVars,
                   serviceStopVars, lockVars, nd_node_name, nodes_before, nd_target,
                   nd_idx, nd_errors>>

\* rollback, lines 129-138: the undo state of the handle is parsed.
NodeDrainRollbackBegin ==
    /\ nd_pc = "executed"
    /\ nd_pc' = "rollback"
    /\ nd_idx' = 1
    /\ UNCHANGED <<orchVars, collabVars, configChangeVars, podKillVars, updateLoadVars,
                   serviceStopVars, lockVars, nd_node_name, nodes, nodes_before,
                   nd_target, nd_undo, nd_errors>>

\* rollback, lines 140-161: one node of undo.nodes: the uncordon patch; a
\* failure is logged and the loop goes on.
NodeDrainUncordon ==
    /\ nd_pc = "rollback"
    /\ nd_idx <= Len(nd_undo)
    /\ \E patch_ok \in BOOLEAN :
         IF patch_ok
           THEN /\ nodes' = patch_unschedulable(nodes, nd_undo[nd_idx], FALSE)
                /\ UNCHANGED nd_errors
           ELSE /\ nd_errors' = nd_errors + 1
                /\ UNCHANGED nodes
    /\ nd_idx' = nd_idx + 1
    /\ UNCHANGED <<orchVars, collabVars, configChangeVars, podKillVars, updateLoadVars,
                   serviceStopVars, lockVars, nd_pc, nd_node_name, nodes_before,
                   nd_target, nd_undo>>

\* rollback, line 164: Ok(()).
NodeDrainRollbackReturn ==
    /\ nd_pc = "rollback"
    /\ nd_idx > Len(nd_undo)
    /\ nd_pc' = "rolled_back"
    /\ UNCHANGED <<orchVars, collabVars, configChangeVars, podKillVars, updateLoadVars,
                   serviceStopVars, lockVars, nd_node_name, nodes, nodes_before,
                   nd_target, nd_undo, nd_idx, nd_errors>>

\* A cluster of two nodes, and a caller about to call execute.
InitNodeDrain ==
    /\ config = [target |-> "database", skills |-> <<>>]
    /\ IdleExcept("node_drain")
    /\ nd_pc = "idle"
    /\ nd_node_name \in NodeNames \cup {"None"}
    /\ nodes \in [NodeNames -> Node]
    /\ nodes_before = nodes
    /\ nd_target = ""
    /\ nd_undo = <<>>
    /\ nd_idx = 0
    /\ nd_errors = 0

NextNodeDrain ==
    \/ NodeDrainPick
    \/ NodeDrainCordon
    \/ NodeDrainRollbackBegin
    \/ NodeDrainUncordon
    \/ NodeDrainRollbackReturn

SpecNodeDrain == InitNodeDrain /\ [][NextNodeDrain]_vars

\* ---------------------------------------------------------------- ServiceStopSkill
\* EXCLUDED_SERVICES of service_discovery.rs.
EXCLUDED_SERVICES ==
    {"sshd", "ssh", "systemd", "dbus", "dbus-broker", "NetworkManager", "network",
     "firewalld", "iptables", "ufw", "chaos-agent"}

\* The list excluded of ServiceStopSkill::execute (lines 68-71).
excluded ==
    {"sshd", "ssh", "systemd", "dbus", "NetworkManager", "network", "firewalld",
     "iptables", "ufw", "chaos"}

\* name.contains(e), for the explored service names and the entries of the
\* two lists.
contains(name, e) ==
    CASE name = "sshd"        -> e \in {"sshd", "ssh"}
      [] name = "dbus-broker" -> e \in {"dbus-broker", "dbus"}
      [] name = "nginx"       -> FALSE

\* execute, lines 53-103: the services to stop: discovered (the running
\* units minus the excluded ones, max_services of them at random) when
\* params.services is empty, else params.services as given.
ServiceStopPick ==
    /\ ss_pc = "idle"
    /\ IF ss_services = <<>>
         THEN \E ssh_ok \in BOOLEAN :
                IF ~ssh_ok
                  THEN /\ ss_result' = "Err:Other"
                       /\ ss_pc' = "returned"
                       /\ UNCHANGED services_to_stop
                  ELSE LET available == {n \in running :
                                           ~ \E e \in excluded : contains(n, e)} IN
                       IF available = {}
                         THEN /\ ss_result' = "Err:Discovery"
                              /\ ss_pc' = "returned"
                              /\ UNCHANGED services_to_stop
                         ELSE /\ services_to_stop' \in
                                    Arrangements(available,
                                                 Min(ss_max_services, Cardinality(available)))
                              /\ ss_pc' = "stop"
                              /\ UNCHANGED ss_result
         ELSE /\ services_to_stop' = ss_services
              /\ ss_pc' = "stop"
              /\ UNCHANGED ss_result
    /\ ss_idx' = 1
    /\ UNCHANGED <<orchVars, collabVars, configChangeVars, podKillVars, updateLoadVars,
                   nodeDrainVars, lockVars, ss_services, ss_max_services, running,
                   stopped, stop_cmds>>

\* execute, lines 105-121: systemctl stop for one service: a failed ssh
\* exec returns Err with the ?, a non-zero exit code is logged and skipped,
\* a stopped service is pushed to stopped.
ServiceStopStep ==
    /\ ss_pc = "stop"
    /\ ss_idx <= Len(services_to_stop)
    /\ LET service == services_to_stop[ss_idx] IN
       \E outcome \in {"ssh_err", "exit_nonzero", "exit_zero"} :
         CASE outcome = "ssh_err" ->
                /\ ss_result' = "Err:Other"
                /\ ss_pc' = "returned"
                /\ UNCHANGED <<running, stopped, stop_cmds, ss_idx>>
           [] outcome = "exit_nonzero" ->
                /\ stop_cmds' = Append(stop_cmds, service)
                /\ ss_idx' = ss_idx + 1
                /\ UNCHANGED <<ss_pc, running, stopped, ss_result>>
           [] outcome = "exit_zero" ->
                /\ stop_cmds' = Append(stop_cmds, service)
                /\ running' = running \ {service}
                /\ stopped' = Append(stopped, service)
                /\ ss_idx' = ss_idx + 1
                /\ UNCHANGED <<ss_pc, ss_result>>
    /\ UNCHANGED <<orchVars, collabVars, configChangeVars, podKillVars, updateLoadVars,
                   nodeDrainVars, lockVars, ss_services, ss_max_services,
                   services_to_stop>>

\* execute, lines 123-129: Ok(RollbackHandle::new("server.service_stop", ..)).
ServiceStopReturn ==
    /\ ss_pc = "stop"
    /\ ss_idx > Len(services_to_stop)
    /\ ss_result' = "Ok"
    /\ ss_pc' = "returned"
    /\ UNCHANGED <<orchVars, collabVars, configChangeVars, podKillVars, updateLoadVars,
                   nodeDrainVars, lockVars, ss_services, ss_max_services, running,
                   services_to_stop, ss_idx, stopped, stop_cmds>>

\* A host with some services running, and a caller about to call execute.
InitServiceStop ==
    /\ config = [target |-> "database", skills |-> <<>>]
    /\ IdleExcept("service_stop")
    /\ ss_pc = "idle"
    /\ ss_services \in SeqsUpTo(ServiceNames, MaxServices)
    /\ ss_max_services \in 1..MaxServices
    /\ running \in SUBSET ServiceNames
    /\ services_to_stop = <<>>
    /\ ss_idx = 0
    /\ stopped = <<>>
    /\ stop_cmds = <<>>
    /\ ss_result = "none"

NextServiceStop ==
    \/ ServiceStopPick
    \/ ServiceStopStep
    \/ ServiceStopReturn

SpecServiceStop == InitServiceStop /\ [][NextServiceStop]_vars

\* ---------------------------------------------------------------- the agent's RwLock
\* agent_lock.write().await resolves: no guard of the lock is alive.
write_available == lock_writer = 0 /\ lock_readers = {}

\* A read guard handed out whatever guards are alive.
read_available_unguarded == TRUE

\* agent_lock.read().await resolves: no write guard is alive.
read_available == lock_writer = 0

\* tokio's RwLock hands its guards out in the order they were asked for:
\* run r is the first of the waiting runs.
next_in_line(r) == lock_queue # <<>> /\ Head(lock_queue) = r

\* The future waiting for the guard is dropped: r waits no longer.
leave_queue(queue, r) == SelectSeq(queue, LAMBDA x : x # r)

\* A read guard that is never given back.
drop_read_guard_leaked(readers, r) == readers

\* The read guard of r goes out of scope.
drop_read_guard(readers, r) == readers \ {r}

\* run_experiment, lines 51-66: the agent is found, the experiment is
\* created, Started is emitted; the call goes on to take the write-lock.
RunStart(r) ==
    /\ run_pos[r] = "idle"
    /\ run_pos' = [run_pos EXCEPT ![r] = "want_initialize"]
    /\ lock_queue' = Append(lock_queue, r)
    /\ UNCHANGED <<lock_writer, lock_readers, in_call, run_handles, run_result,
                   run_records, agent_conn>>
    /\ UNCHANGED <<orchVars, collabVars, configChangeVars, podKillVars, updateLoadVars,
                   nodeDrainVars, serviceStopVars>>

\* Lines 68-71 and 77-78: the write guard is taken and initialize
\* (discover) is called under it.
AcquireWrite(r) ==
    /\ run_pos[r] \in {"want_initialize", "want_discover"}
    /\ write_available
    /\ next_in_line(r)
    /\ lock_queue' = Tail(lock_queue)
    /\ lock_writer' = r
    /\ LET call == IF run_pos[r] = "want_initialize" THEN "initialize" ELSE "discover" IN
         /\ run_pos' = [run_pos EXCEPT ![r] = call]
         /\ in_call' = [in_call EXCEPT ![r] = call]
    /\ UNCHANGED <<lock_readers, run_handles, run_result, run_records,
                   agent_conn>>
    /\ UNCHANGED <<orchVars, collabVars, configChangeVars, podKillVars, updateLoadVars,
                   nodeDrainVars, serviceStopVars>>

\* Lines 70-71 and 78-91: initialize (discover) returns; the guard is
\* dropped at the end of its block, or by the ? when the call failed. An
\* initialize that succeeded has replaced the agent's connection resource
\* (DbAgent::initialize, self.pool = Some(pool)).
WriteCallReturn(r) ==
    /\ run_pos[r] \in {"initialize", "discover"}
    /\ in_call' = [in_call EXCEPT ![r] = "none"]
    /\ lock_writer' = 0
    /\ \E ok \in BOOLEAN :
         /\ run_pos' = [run_pos EXCEPT ![r] =
                        IF ~ok THEN "returned_err"
                        ELSE IF run_pos[r] = "initialize" THEN "want_discover"
                        ELSE "want_execute"]
         /\ lock_queue' = IF ok THEN Append(lock_queue, r) ELSE lock_queue
         /\ agent_conn' = IF ok /\ run_pos[r] = "initialize" THEN r ELSE agent_conn
    /\ UNCHANGED <<lock_readers, run_handles, run_result, run_records>>
    /\ UNCHANGED <<orchVars, collabVars, configChangeVars, podKillVars, updateLoadVars,
                   nodeDrainVars, serviceStopVars>>

\* execute_skills, line 187, and rollback_experiment, line 250: the read
\* guard is taken for the whole function.
AcquireRead(r) ==
    /\ run_pos[r] \in {"want_execute", "want_rollback"}
    /\ read_available
    /\ next_in_line(r)
    /\ lock_queue' = Tail(lock_queue)
    /\ lock_readers' = lock_readers \cup {r}
    /\ run_pos' = [run_pos EXCEPT ![r] =
                      IF run_pos[r] = "want_execute" THEN "execute_skills"
                      ELSE "rollback_experiment"]
    /\ UNCHANGED <<lock_writer, in_call, run_handles, run_result, run_records,
                   agent_conn>>
    /\ UNCHANGED <<orchVars, collabVars, configChangeVars, podKillVars, updateLoadVars,
                   nodeDrainVars, serviceStopVars>>

\* execute_skills, lines 197-203: build_context, then a call of
\* Skill::execute under the read guard; rollback_experiment, lines 270-283:
\* build_context, then a call of Skill::rollback for one of the handles.
\* The context is built from the agent's connection resource of the moment.
SkillCall(r) ==
    /\ in_call[r] = "none"
    /\ \/ /\ run_pos[r] = "execute_skills"
          /\ run_handles[r] < MaxSkills
          /\ in_call' = [in_call EXCEPT ![r] = "execute"]
       \/ /\ run_pos[r] = "rollback_experiment"
          /\ run_handles[r] > 0
          /\ in_call' = [in_call EXCEPT ![r] = "rollback"]
    /\ UNCHANGED <<run_pos, lock_writer, lock_readers, run_handles, run_result,
                   run_records, lock_queue, agent_conn>>
    /\ UNCHANGED <<orchVars, collabVars, configChangeVars, podKillVars, updateLoadVars,
                   nodeDrainVars, serviceStopVars>>

\* execute_skills, lines 204-237: Skill::execute returns: Ok pushes the
\* handle and the loop goes on, Err returns from execute_skills, which
\* drops the read guard.
ExecuteCallReturn(r) ==
    /\ in_call[r] = "execute"
    /\ in_call' = [in_call EXCEPT ![r] = "none"]
    /\ \E ok \in BOOLEAN :
         IF ok
           THEN /\ run_handles' = [run_handles EXCEPT ![r] = @ + 1]
                /\ UNCHANGED <<run_pos, lock_readers, run_result, run_records,
                               lock_queue>>
           ELSE /\ run_result' = [run_result EXCEPT ![r] = "Err"]
                /\ run_pos' = [run_pos EXCEPT ![r] = "want_rollback"]
                /\ lock_readers' = drop_read_guard(lock_readers, r)
                /\ lock_queue' = Append(lock_queue, r)
                /\ UNCHANGED run_handles
    /\ UNCHANGED <<lock_writer, run_records, agent_conn>>
    /\ UNCHANGED <<orchVars, collabVars, configChangeVars, podKillVars, updateLoadVars,
                   nodeDrainVars, serviceStopVars>>

\* rollback_experiment, lines 282-308: Skill::rollback returns; the step
\* is recorded and the loop goes on with the next handle.
RollbackCallReturn(r) ==
    /\ in_call[r] = "rollback"
    /\ in_call' = [in_call EXCEPT ![r] = "none"]
    /\ run_handles' = [run_handles EXCEPT ![r] = @ - 1]
    /\ run_records' = [run_records EXCEPT ![r] = Append(@, "called")]
    /\ UNCHANGED <<run_pos, lock_writer, lock_readers, run_result, lock_queue,
                   agent_conn>>
    /\ UNCHANGED <<orchVars, collabVars, configChangeVars, podKillVars, updateLoadVars,
                   nodeDrainVars, serviceStopVars>>

\* execute_skills returns between two calls (lines 240-241 at the end of
\* the invocations, or the ? of an unknown skill, of invalid params or of
\* build_context): its read guard is dropped; run_experiment sleeps the
\* soak on Ok (lines 103-120, no guard held) and goes on to the rollback
\* otherwise.
ExecuteSkillsReturn(r) ==
    /\ run_pos[r] = "execute_skills"
    /\ in_call[r] = "none"
    /\ lock_readers' = drop_read_guard(lock_readers, r)
    /\ \E ok \in BOOLEAN :
         /\ run_result' = [run_result EXCEPT ![r] = IF ok THEN "Ok" ELSE "Err"]
         /\ run_pos' = [run_pos EXCEPT ![r] = IF ok THEN "soak" ELSE "want_rollback"]
         /\ lock_queue' = IF ok THEN lock_queue ELSE Append(lock_queue, r)
    /\ UNCHANGED <<lock_writer, in_call, run_handles, run_records,
                   agent_conn>>
    /\ UNCHANGED <<orchVars, collabVars, configChangeVars, podKillVars, updateLoadVars,
                   nodeDrainVars, serviceStopVars>>

\* Lines 111-120: the soak sleep is over.
SoakOver(r) ==
    /\ run_pos[r] = "soak"
    /\ run_pos' = [run_pos EXCEPT ![r] = "want_rollback"]
    /\ lock_queue' = Append(lock_queue, r)
    /\ UNCHANGED <<lock_writer, lock_readers, in_call, run_handles, run_result,
                   run_records, agent_conn>>
    /\ UNCHANGED <<orchVars, collabVars, configChangeVars, podKillVars, updateLoadVars,
                   nodeDrainVars, serviceStopVars>>

\* rollback_experiment, lines 252-281: a handle whose skill is not found
\* or whose context cannot be built is recorded without a call.
RollbackSkip(r) ==
    /\ run_pos[r] = "rollback_experiment"
    /\ in_call[r] = "none"
    /\ run_handles[r] > 0
    /\ run_handles' = [run_handles EXCEPT ![r] = @ - 1]
    /\ run_records' = [run_records EXCEPT ![r] = Append(@, "skipped")]
    /\ UNCHANGED <<run_pos, lock_writer, lock_readers, in_call, run_result,
                   lock_queue, agent_conn>>
    /\ UNCHANGED <<orchVars, collabVars, configChangeVars, podKillVars, updateLoadVars,
                   nodeDrainVars, serviceStopVars>>

\* rollback_experiment returns (line 309) after the last handle: its read
\* guard is dropped; run_experiment builds the report from its locals
\* (lines 132-170) and goes on to store the experiment.
RollbackExperimentReturn(r) ==
    /\ run_pos[r] = "rollback_experiment"
    /\ in_call[r] = "none"
    /\ run_handles[r] = 0
    /\ lock_readers' = drop_read_guard(lock_readers, r)
    /\ run_pos' = [run_pos EXCEPT ![r] = "want_store"]
    /\ run_result' = [run_result EXCEPT ![r] = "none"]
    /\ run_records' = [run_records EXCEPT ![r] = <<>>]
    /\ UNCHANGED <<lock_writer, in_call, run_handles, lock_queue, agent_conn>>
    /\ UNCHANGED <<orchVars, collabVars, configChangeVars, podKillVars, updateLoadVars,
                   nodeDrainVars, serviceStopVars>>

\* run_experiment, lines 172-178: the write guard of the experiments map
\* is taken, the experiment inserted and the guard dropped, with no .await
\* in between; Ok(report) is returned.
StoreExperiment(r) ==
    /\ run_pos[r] = "want_store"
    /\ run_pos' = [run_pos EXCEPT ![r] = "returned"]
    /\ UNCHANGED <<lock_writer, lock_readers, in_call, run_handles, run_result,
                   run_records, lock_queue, agent_conn>>
    /\ UNCHANGED <<orchVars, collabVars, configChangeVars, podKillVars, updateLoadVars,
                   nodeDrainVars, serviceStopVars>>

\* The task of the run is aborted at an .await: the future is dropped, and
\* with it its locals, the guard it holds and its place among the waiting.
AbortRun(r) ==
    /\ run_pos[r] \notin {"idle", "returned", "returned_err", "aborted"}
    /\ run_pos' = [run_pos EXCEPT ![r] = "aborted"]
    /\ in_call' = [in_call EXCEPT ![r] = "none"]
    /\ lock_writer' = IF lock_writer = r THEN 0 ELSE lock_writer
    /\ lock_readers' = lock_readers \ {r}
    /\ lock_queue' = leave_queue(lock_queue, r)
    /\ run_handles' = [run_handles EXCEPT ![r] = 0]
    /\ run_result' = [run_result EXCEPT ![r] = "none"]
    /\ run_records' = [run_records EXCEPT ![r] = <<>>]
    /\ UNCHANGED agent_conn
    /\ UNCHANGED <<orchVars, collabVars, configChangeVars, podKillVars, updateLoadVars,
                   nodeDrainVars, serviceStopVars>>

\* Concurrent run_experiment calls on one orchestrator, all with the same
\* target, none started yet.
InitLocks ==
    /\ config = [target |-> "database", skills |-> <<>>]
    /\ IdleExcept("locks")
    /\ LocksIdle

\* The steps run r takes by itself once it has been called: every step
\* but the call and the abort, which are its caller's.
RunProgress(r) ==
    \/ AcquireWrite(r)
    \/ WriteCallReturn(r)
    \/ AcquireRead(r)
    \/ SkillCall(r)
    \/ ExecuteCallReturn(r)
    \/ ExecuteSkillsReturn(r)
    \/ SoakOver(r)
    \/ RollbackCallReturn(r)
    \/ RollbackSkip(r)
    \/ RollbackExperimentReturn(r)
    \/ StoreExperiment(r)

NextLocks ==
    \E r \in Runs :
        \/ RunStart(r)
        \/ AcquireWrite(r)
        \/ WriteCallReturn(r)
        \/ AcquireRead(r)
        \/ SkillCall(r)
        \/ ExecuteCallReturn(r)
        \/ ExecuteSkillsReturn(r)
        \/ SoakOver(r)
        \/ RollbackCallReturn(r)
        \/ RollbackSkip(r)
        \/ RollbackExperimentReturn(r)
        \/ StoreExperiment(r)
        \/ AbortRun(r)

SpecLocks == InitLocks /\ [][NextLocks]_vars

\* The runs followed under fairness.
FairRuns == {1, 2}

NextLocksFair ==
    \E r \in FairRuns :
        \/ RunStart(r)
        \/ AcquireWrite(r)
        \/ WriteCallReturn(r)
        \/ AcquireRead(r)
        \/ SkillCall(r)
        \/ ExecuteCallReturn(r)
        \/ ExecuteSkillsReturn(r)
        \/ SoakOver(r)
        \/ RollbackCallReturn(r)
        \/ RollbackSkip(r)
        \/ RollbackExperimentReturn(r)
        \/ StoreExperiment(r)
        \/ AbortRun(r)

\* The same calls under a scheduler that polls every task that can go on,
\* with agents, skills and sinks whose calls return and a soak that ends.
SpecLocksFair ==
    InitLocks /\ [][NextLocksFair]_vars /\ \A r \in FairRuns : WF_vars(RunProgress(r))

\* ---------------------------------------------------------------- the daemon
\* A sequence without its i-th element.
RemoveAt(seq, i) == SubSeq(seq, 1, i - 1) \o SubSeq(seq, i + 1, Len(seq))

\* A permit handed out whatever the semaphore holds.
try_acquire_owned_always(permits) == TRUE

\* semaphore.try_acquire_owned() is Ok (line 80): a permit is available.
try_acquire_owned(permits) == permits > 0

\* The wait satisfied by a single available permit.
acquire_many_one(permits, n) == permits >= 1

\* semaphore.acquire_many(n) resolves (lines 137-139): n permits are
\* available.
acquire_many(permits, n) == permits >= n

\* Lines 49-53: the ctrl_c task receives the signal and sends true on the
\* shutdown channel; it runs beside the scheduler loop.
DaemonSignal ==
    /\ dm_pc \in {"select", "tick"}
    /\ ~dm_signal
    /\ dm_signal' = TRUE
    /\ UNCHANGED <<orchVars, configChangeVars, podKillVars, updateLoadVars,
                   nodeDrainVars, serviceStopVars, lockVars, daemonRest, dm_pc, dm_idx,
                   dm_max_concurrent, dm_enabled, dm_permits, dm_tasks, dm_last,
                   pid_file>>

\* Lines 60-63: select! takes the branch of the interval: a tick is due.
\* With both branches ready select! picks one of them at random.
DaemonTick ==
    /\ dm_pc = "select"
    /\ dm_pc' = "tick"
    /\ dm_idx' = 1
    /\ UNCHANGED <<orchVars, configChangeVars, podKillVars, updateLoadVars,
                   nodeDrainVars, serviceStopVars, lockVars, daemonRest, dm_max_concurrent,
                   dm_enabled, dm_signal, dm_permits, dm_tasks, dm_last, pid_file>>

\* Lines 65-125: one scheduled experiment of the tick: skipped when
\* disabled or without trigger; with a trigger a permit is tried: none
\* available, the experiment is skipped with a warning; else the task that
\* runs the experiment is spawned and owns the permit.
DaemonSchedule ==
    /\ dm_pc = "tick"
    /\ dm_idx <= MaxScheduled
    /\ IF ~dm_enabled[dm_idx]
         THEN /\ dm_last' = "disabled"
              /\ UNCHANGED <<dm_permits, dm_tasks>>
         ELSE \E has_trigger \in BOOLEAN :
                IF ~has_trigger
                  THEN /\ dm_last' = "no_trigger"
                       /\ UNCHANGED <<dm_permits, dm_tasks>>
                  ELSE IF try_acquire_owned(dm_permits)
                    THEN /\ dm_permits' = dm_permits - 1
                         /\ dm_tasks' = Append(dm_tasks,
                                [phase |-> "execute", after_signal |-> dm_signal])
                         /\ dm_last' = "spawned"
                    ELSE /\ dm_last' = "skipped"
                         /\ UNCHANGED <<dm_permits, dm_tasks>>
    /\ dm_idx' = dm_idx + 1
    /\ UNCHANGED <<orchVars, configChangeVars, podKillVars, updateLoadVars,
                   nodeDrainVars, serviceStopVars, lockVars, daemonRest, dm_pc, dm_max_concurrent,
                   dm_enabled, dm_signal, pid_file>>

\* Line 128: the tick is over (last_check = now); back to select!.
DaemonTickEnd ==
    /\ dm_pc = "tick"
    /\ dm_idx > MaxScheduled
    /\ dm_pc' = "select"
    /\ UNCHANGED <<orchVars, configChangeVars, podKillVars, updateLoadVars,
                   nodeDrainVars, serviceStopVars, lockVars, daemonRest, dm_idx, dm_max_concurrent,
                   dm_enabled, dm_signal, dm_permits, dm_tasks, dm_last, pid_file>>

\* Lines 130-133: select! takes the branch of shutdown_rx.changed(): break.
DaemonShutdown ==
    /\ dm_pc = "select"
    /\ dm_signal
    /\ dm_pc' = "waiting"
    /\ UNCHANGED <<orchVars, configChangeVars, podKillVars, updateLoadVars,
                   nodeDrainVars, serviceStopVars, lockVars, daemonRest, dm_idx, dm_max_concurrent,
                   dm_enabled, dm_signal, dm_permits, dm_tasks, dm_last, pid_file>>

\* Lines 136-151: all permits acquired (and dropped at once), the PID file
\* is removed and execute returns Ok(()).
DaemonReturn ==
    /\ dm_pc = "waiting"
    /\ acquire_many(dm_permits, dm_max_concurrent)
    /\ pid_file' = FALSE
    /\ dm_pc' = "returned"
    /\ UNCHANGED <<orchVars, configChangeVars, podKillVars, updateLoadVars,
                   nodeDrainVars, serviceStopVars, lockVars, daemonRest, dm_idx, dm_max_concurrent,
                   dm_enabled, dm_signal, dm_permits, dm_tasks, dm_last>>

\* Lines 114-122, inside the spawned task: the run of the experiment gets
\* from its execute phase to its rollback phase.
TaskRollback(i) ==
    /\ dm_pc # "returned"
    /\ i \in DOMAIN dm_tasks
    /\ dm_tasks[i].phase = "execute"
    /\ dm_tasks' = [dm_tasks EXCEPT ![i].phase = "rollback"]
    /\ UNCHANGED <<orchVars, configChangeVars, podKillVars, updateLoadVars,
                   nodeDrainVars, serviceStopVars, lockVars, daemonRest, dm_pc, dm_idx,
                   dm_max_concurrent, dm_enabled, dm_signal, dm_permits, dm_last,
                   pid_file>>

\* Lines 114-123: run_experiment returns (Err before the execute phase is
\* over, or the report after the rollback phase), the task ends and
\* _permit is dropped.
TaskEnd(i) ==
    /\ dm_pc # "returned"
    /\ i \in DOMAIN dm_tasks
    /\ dm_tasks' = RemoveAt(dm_tasks, i)
    /\ dm_permits' = dm_permits + 1
    /\ UNCHANGED <<orchVars, configChangeVars, podKillVars, updateLoadVars,
                   nodeDrainVars, serviceStopVars, lockVars, daemonRest, dm_pc, dm_idx,
                   dm_max_concurrent, dm_enabled, dm_signal, dm_last, pid_file>>

\* Lines 28-58: the config is read, the PID file written when asked for,
\* the semaphore created with max_concurrent permits.
InitDaemon ==
    /\ config = [target |-> "database", skills |-> <<>>]
    /\ IdleExcept("daemon")
    /\ dm_pc = "select"
    /\ dm_idx = 0
    /\ dm_max_concurrent \in 0..MaxConcurrent
    /\ dm_enabled \in [Scheduled -> BOOLEAN]
    /\ dm_signal = FALSE
    /\ dm_permits = dm_max_concurrent
    /\ dm_tasks = <<>>
    /\ dm_last = "none"
    /\ pid_file \in BOOLEAN

NextDaemon ==
    \/ DaemonSignal
    \/ DaemonTick
    \/ DaemonSchedule
    \/ DaemonTickEnd
    \/ DaemonShutdown
    \/ DaemonReturn
    \/ \E i \in 1..MaxConcurrent : TaskRollback(i)
    \/ \E i \in 1..MaxConcurrent : TaskEnd(i)

SpecDaemon == InitDaemon /\ [][NextDaemon]_vars

\* ---------------------------------------------------------------- helpers of the properties
Count(seq, x) == Cardinality({i \in DOMAIN seq : seq[i] = x})

HasEvent(type) == \E i \in DOMAIN events : events[i].type = type

NumEvents(type) == Cardinality({i \in DOMAIN events : events[i].type = type})

\* The call is over: it returned, or its task was aborted.
Terminated == pc \in {"returned", "aborted"}

ExecuteFailedSeen == \E i \in DOMAIN execute_calls : ~execute_calls[i].ok

\* The rollback steps in which Skill::rollback was really called.
Attempted ==
    SelectSeq([i \in 1..Len(rollback_records) |-> i],
              LAMBDA i : rollback_records[i].error \in {"none", "rollback failed"})

\* The positions in the log of the handles execute returned for invocation i.
HandlesOf(i) == {k \in DOMAIN rollback_log : execute_calls[rollback_log[k].id].inv = i}

\* The handle at position k of the log has its rollback step record, and
\* Skill::rollback was called with it unless its context could not be built.
Processed(k) ==
    LET i == Len(rollback_log) + 1 - k IN
      /\ i <= Len(rollback_records)
      /\ rollback_records[i].skill_name = rollback_log[k].skill_name
      /\ rollback_records[i].error \in {"none", "rollback failed"}
            => Count(rollback_calls, rollback_log[k].id) = 1

\* ---------------------------------------------------------------- C1
\* C1 (rollback totality): once a run is over in which execute returned at
\* least one handle, Skill::rollback has been called exactly once for every
\* handle pushed to the rollback log, also when a later execute failed or
\* the run was cancelled.
C1_RollbackTotality ==
    (Terminated /\ rollback_log # <<>>) =>
        \A k \in DOMAIN rollback_log : Count(rollback_calls, rollback_log[k].id) = 1

\* ---------------------------------------------------------------- C2
\* C2 (cancellation never skips the rollback): a run cancelled after it has
\* started has entered the rollback phase and has rolled back every handle
\* that is in the rollback log.
C2_CancelNeverSkipsRollback ==
    (pc = "aborted" /\ status # "NoExperiment") =>
        /\ HasEvent("RollbackStarted")
        /\ \A k \in DOMAIN rollback_log : Count(rollback_calls, rollback_log[k].id) >= 1

\* ---------------------------------------------------------------- C3
\* C3 (reverse order): the i-th rollback step record is for the (n-i+1)-th
\* handle pushed, Skill::rollback is called with the handles in that order,
\* and when the run returns its report the rollback step records are exactly
\* the successful execution records reversed.
C3_ReverseOrder ==
    LET n == Len(rollback_log)
        okRecords == SelectSeq(skill_records, LAMBDA r : r.success) IN
      /\ Len(rollback_records) <= n
      /\ \A i \in DOMAIN rollback_records :
            rollback_records[i].skill_name = rollback_log[n + 1 - i].skill_name
      /\ rollback_calls = [k \in 1..Len(Attempted) |-> rollback_log[n + 1 - Attempted[k]].id]
      /\ (pc = "returned" /\ result = "Ok") =>
            /\ Len(rollback_records) = Len(okRecords)
            /\ \A i \in DOMAIN rollback_records :
                  rollback_records[i].skill_name = okRecords[Len(okRecords) + 1 - i].skill_name

\* Three handles of two different skills, all rolled back, newest first.
C3_Witness ==
    /\ pc = "returned"
    /\ Len(rollback_log) = 3
    /\ rollback_log[1].skill_name # rollback_log[3].skill_name
    /\ rollback_calls = <<rollback_log[3].id, rollback_log[2].id, rollback_log[1].id>>

\* ---------------------------------------------------------------- C4
\* C4 (rollback exactly once): every run that has created an Experiment and
\* is over has entered RollingBack exactly one time, whether it succeeded,
\* failed or was cancelled.
C4_RollbackExactlyOnce ==
    (Terminated /\ status # "NoExperiment") => NumEvents("RollbackStarted") = 1

\* ---------------------------------------------------------------- C5
\* C5 (execute failure): no execute call is made after a failed execute (the
\* remaining repetitions and the later invocations are skipped), the run is
\* then in its rollback phase over a snapshot of all the handles pushed so
\* far, and when it returns every one of them has its rollback step.
C5_SkipAfterExecuteFailure ==
    /\ \A i \in DOMAIN execute_calls : ~execute_calls[i].ok => i = Len(execute_calls)
    /\ ExecuteFailedSeen =>
          /\ execution_result = "Err:SkillExecution"
          /\ Len(rollback_log) = Len(execute_calls) - 1
          /\ status \in {"RollingBack", "Failed"}
          /\ NumEvents("RollbackStarted") = 1
          /\ Len(handles) = Len(rollback_log)
          /\ {handles[i] : i \in DOMAIN handles} = {rollback_log[i] : i \in DOMAIN rollback_log}
          /\ pc = "returned" =>
                /\ result = "Ok"
                /\ \A k \in DOMAIN rollback_log : Processed(k)

\* The second repetition of the first invocation failed, a later invocation
\* was never run, and the handle of the first repetition was rolled back.
C5_Witness ==
    /\ pc = "returned"
    /\ ExecuteFailedSeen
    /\ inv = 1
    /\ Len(config.skills) = 2
    /\ config.skills[2].count > 0
    /\ Len(rollback_log) = 1
    /\ rollback_calls = <<rollback_log[1].id>>

\* ---------------------------------------------------------------- C6
\* C6 (soak iff execute succeeded): WaitingDuration is the status and
\* DurationWaitBegin has been emitted exactly when execute_skills returned
\* Ok; after a failed execute phase the status is RollingBack (or the final
\* Failed) and the run never sleeps.
C6_SoakIffExecuteOk ==
    /\ HasEvent("DurationWaitBegin") <=> execution_result = "Ok"
    /\ status = "WaitingDuration" => execution_result = "Ok"
    /\ pc = "soak" <=> (status = "WaitingDuration" /\ pc # "aborted")
    /\ execution_result \notin {"pending", "Ok"} =>
          /\ status \in {"RollingBack", "Failed"}
          /\ pc \in {"rollback", "returned", "aborted"}
          /\ events[Len(events)].type # "DurationWaitBegin"
    /\ execution_result = "pending" => status \in {"NoExperiment", "Pending", "Discovering", "Executing"}

\* The run sleeps in its soak with two handles applied.
C6_Witness ==
    /\ pc = "soak"
    /\ status = "WaitingDuration"
    /\ Len(rollback_log) = 2
    /\ events[Len(events)] = DurationWaitBegin

\* ---------------------------------------------------------------- C7
\* C7 (a failed rollback step is not fatal): after a failed step the loop is
\* at the next handle, so a run that returns has one step record per handle,
\* the failed ones carrying their error, and it returns Ok(report).
C7_RollbackFailureNotFatal ==
    /\ pc = "rollback" =>
          /\ Len(rollback_records) = rb_idx - 1
          /\ Len(handles) = Len(rollback_log)
    /\ \A i \in DOMAIN rollback_records :
          rollback_records[i].success <=> rollback_records[i].error = "none"
    /\ Len(rollback_calls) = Len(Attempted)
    /\ (\E i \in DOMAIN rollback_records : ~rollback_records[i].success) =>
          result \in {"none", "Ok"}
    /\ (pc = "returned" /\ status \in {"Completed", "Failed"}) =>
          /\ result = "Ok"
          /\ Len(rollback_records) = Len(rollback_log)

\* Handles [H1, H2, H3]: H3 rolled back, then H2 (failed, recorded), then H1.
C7_Witness ==
    /\ pc = "returned"
    /\ result = "Ok"
    /\ Len(rollback_log) = 3
    /\ rollback_calls = <<rollback_log[3].id, rollback_log[2].id, rollback_log[1].id>>
    /\ rollback_records[1].success
    /\ rollback_records[2].error = "rollback failed"
    /\ rollback_records[3].success

ClaimedOrder(q, type) ==
    CASE q = 0 /\ type = "Started" -> 1
      [] q = 1 /\ type = "SkillExecuted" -> 1
      [] q = 1 /\ type = "DurationWaitBegin" -> 2
      [] q \in {1, 2, 3} /\ type = "RollbackStepCompleted" -> 3
      [] q \in {1, 2, 3} /\ type = "Failed" -> 4
      [] q \in {1, 2, 3, 4} /\ type = "Completed" -> 5
      [] OTHER -> -1

\* The order of the events in the code: Started, SkillExecuted*, then Failed
\* or DurationWaitBegin, RollbackStarted, RollbackStepCompleted*, Completed.
\* State 0 is the start, 4 the end, -1 a rejection.
EmittedOrder(q, type) ==
    CASE q = 0 /\ type = "Started" -> 1
      [] q = 1 /\ type = "SkillExecuted" -> 1
      [] q = 1 /\ type \in {"Failed", "DurationWaitBegin"} -> 2
      [] q = 2 /\ type = "RollbackStarted" -> 3
      [] q = 3 /\ type = "RollbackStepCompleted" -> 3
      [] q = 3 /\ type = "Completed" -> 4
      [] OTHER -> -1

RECURSIVE RunOrder(_, _, _)
RunOrder(Step(_, _), q, evs) ==
    IF evs = <<>> THEN q ELSE RunOrder(Step, Step(q, Head(evs).type), Tail(evs))

\* C9 as claimed (RollbackStarted, which the claimed order does not mention,
\* is left out of the sequence): the events of a run are in the claimed
\* order, so a Failed event comes after every RollbackStepCompleted and
\* immediately before the final Completed.
C9_EventOrder ==
    LET evs == SelectSeq(events, LAMBDA e : e.type # "RollbackStarted") IN
      /\ RunOrder(ClaimedOrder, 0, evs) # -1
      /\ (pc = "returned" /\ result = "Ok") => RunOrder(ClaimedOrder, 0, evs) = 5

\* C9 amended: the events of a run are a prefix of Started, SkillExecuted*,
\* (Failed | DurationWaitBegin), RollbackStarted, RollbackStepCompleted*,
\* Completed, the whole of it when run_experiment returns a report; Failed is
\* there exactly when the execute phase failed, after the last SkillExecuted
\* and before RollbackStarted.
C9_EventOrderAmended ==
    /\ RunOrder(EmittedOrder, 0, events) # -1
    /\ (pc = "returned" /\ result = "Ok") => RunOrder(EmittedOrder, 0, events) = 4
    /\ HasEvent("Failed") <=> execution_result \notin {"pending", "Ok"}
    /\ NumEvents("Failed") <= 1

\* A failed run that rolled a handle back: Failed came before the rollback.
C9_Witness ==
    /\ pc = "returned"
    /\ HasEvent("Failed")
    /\ HasEvent("RollbackStepCompleted")
    /\ events[Len(events)] = Completed

\* ---------------------------------------------------------------- C10
\* C10 (Completed is the last event): when run_experiment has returned and
\* Started was emitted, Completed was emitted, once, and it is the last
\* event, also when initialize or discover failed.
C10_CompletedIsLast ==
    (pc = "returned" /\ HasEvent("Started")) =>
        /\ NumEvents("Completed") = 1
        /\ events[Len(events)] = Completed

\* ---------------------------------------------------------------- C11
\* C11 (agent lookup): a run whose target domain has no registered agent
\* returns the Configuration error and nothing else happens: no event is
\* emitted, no sink receives one, no agent or skill method is called and no
\* experiment is created or stored; the Configuration error is returned by
\* run_experiment in no other case.
C11_AgentLookup ==
    /\ (pc # "idle" /\ config.target \notin agents) =>
          /\ pc = "returned"
          /\ result = "Err:Config"
          /\ events = <<>>
          /\ \A i \in DOMAIN received : received[i] = <<>>
          /\ agent_calls = <<>>
          /\ execute_calls = <<>>
          /\ rollback_calls = <<>>
          /\ status = "NoExperiment"
          /\ experiments = <<>>
          /\ report = NoReport
    /\ result = "Err:Config" => config.target \notin agents

\* A run with a skill to execute and a sink listening, no agent registered.
C11_Witness ==
    /\ pc = "returned"
    /\ result = "Err:Config"
    /\ config.skills # <<>>
    /\ event_sinks # <<>>

\* ---------------------------------------------------------------- C12
\* The outcome of the run is encoded in the report run_experiment returned:
\* its records are the run's records and its status tells the execute
\* phase's error.
OutcomeInReport ==
    /\ result = "Ok"
    /\ report.skill_executions = skill_records
    /\ report.rollback_steps = rollback_records
    /\ report.status = IF execution_result = "Ok"
                         THEN "completed"
                         ELSE "failed: " \o to_string(execution_result)

\* C12 as claimed: run_experiment returns an error only for Configuration
\* and Connection problems met before the execute phase; once the execute
\* phase has begun, every outcome is returned as Ok(report) with the outcome
\* encoded in the report.
C12_ErrorsOnlyBeforeExecute ==
    /\ result \notin {"none", "Ok"} =>
          /\ result \in {"Err:Config", "Err:Connection"}
          /\ status \in {"NoExperiment", "Pending", "Discovering"}
          /\ execution_result = "pending"
    /\ (pc = "returned" /\ execution_result # "pending") => OutcomeInReport

\* C12 amended: the errors run_experiment returns are the Configuration error
\* of the agent lookup, the Connection error of initialize and the error of
\* discover (a Discovery error), all before the execute phase and without a
\* report; once the execute phase has begun, every outcome is returned as
\* Ok(report) with the outcome encoded in the report.
C12_ErrorsOnlyBeforeExecuteAmended ==
    /\ result \notin {"none", "Ok"} =>
          /\ result \in {"Err:Config", "Err:Connection", "Err:Discovery"}
          /\ result = "Err:Discovery" => agent_calls = <<"initialize", "discover">>
          /\ status \in {"NoExperiment", "Pending", "Discovering"}
          /\ execution_result = "pending"
          /\ execute_calls = <<>>
          /\ report = NoReport
    /\ (pc = "returned" /\ execution_result # "pending") => OutcomeInReport

\* An unknown skill name met after an execute: a report, not an error.
C12_Witness ==
    /\ pc = "returned"
    /\ result = "Ok"
    /\ execution_result = "Err:Config:Unknown skill"
    /\ execute_calls # <<>>
    /\ report.status = "failed: Configuration error: Unknown skill"

\* ---------------------------------------------------------------- C13
\* A failure was recorded during the run: the execute phase failed, or a
\* skill execution record or a rollback step record has success = false.
AnyFailureRecorded ==
    \/ execution_result \notin {"pending", "Ok"}
    \/ \E i \in DOMAIN skill_records : ~skill_records[i].success
    \/ \E i \in DOMAIN rollback_records : ~rollback_records[i].success

\* The reason of the first failure recorded: the execute phase's error, or,
\* when the execute phase succeeded, the error of the first failed rollback step.
FirstReason ==
    IF execution_result \notin {"pending", "Ok"} THEN to_string(execution_result)
    ELSE LET failed == SelectSeq(rollback_records, LAMBDA r : ~r.success)
         IN IF failed = <<>> THEN "none" ELSE failed[1].error

\* C13 as claimed: when the run returns its report, the status is Completed
\* and the report says "completed" unless a failure was recorded during the
\* run; then the status is Failed(first reason) and the report says
\* "failed: <first reason>".
C13_FinalStatus ==
    (pc = "returned" /\ result = "Ok") =>
        IF AnyFailureRecorded
          THEN /\ status = "Failed"
               /\ failure_error = FirstReason
               /\ report.status = "failed: " \o FirstReason
          ELSE /\ status = "Completed"
               /\ report.status = "completed"

\* C13 amended: when the run returns its report, the status is Completed and
\* the report says "completed" unless the execute phase returned an error;
\* then the status is Failed(that error's text) and the report says
\* "failed: <that text>".  Failed rollback steps change neither; the status
\* stored with the experiment is the same one.
C13_FinalStatusAmended ==
    /\ (pc = "returned" /\ result = "Ok") =>
          /\ experiments = <<status>>
          /\ IF execution_result # "Ok"
               THEN /\ status = "Failed"
                    /\ failure_error = to_string(execution_result)
                    /\ report.status = "failed: " \o to_string(execution_result)
               ELSE /\ status = "Completed"
                    /\ failure_error = "none"
                    /\ report.status = "completed"
    /\ status \in {"Completed", "Failed"} => (pc = "returned" /\ result = "Ok")

\* The execute phase succeeded, a rollback step failed and was recorded, and
\* the run ended Completed.
C13_Witness ==
    /\ pc = "returned"
    /\ execution_result = "Ok"
    /\ \E i \in DOMAIN report.rollback_steps : ~report.rollback_steps[i].success
    /\ status = "Completed"
    /\ report.status = "completed"

\* ---------------------------------------------------------------- C14
\* C14 (context params): for every call of Skill::execute, the params of the
\* SkillContext passed are the params of the SkillInvocation being run, the
\* value validate_params checked.
C14_ContextCarriesParams ==
    \A c \in DOMAIN execute_calls :
        /\ validate_params(config.skills[execute_calls[c].inv].params)
        /\ execute_calls[c].params = config.skills[execute_calls[c].inv].params

\* ---------------------------------------------------------------- C15
\* C15 (configuration errors fail fast): when an unknown skill name or
\* params rejected by validate_params are detected, no Skill::execute has
\* been called and no handle has been pushed.
C15_ConfigErrorsFailFast ==
    execution_result \in {"Err:Config:Unknown skill", "Err:Config:invalid params"} =>
        /\ execute_calls = <<>>
        /\ rollback_log = <<>>

\* ---------------------------------------------------------------- C16
\* C16 (execute is atomic from the caller's view): when execute has returned,
\* either it returned a handle or the target is as it was before the call,
\* and in every case the undo state returned is enough to put the target
\* back as it was, also after a failure in the middle of the changes.
C16_ExecuteAtomic ==
    sk_pc = "returned" =>
        /\ sk_result.tag = "Ok" \/ db_settings = db_original
        /\ Undo(db_settings, sk_result.undo_state) = db_original

\* ---------------------------------------------------------------- C17
\* C17 (rollback over an empty log): when the execute phase failed before
\* any handle was pushed, the rollback phase still runs (RollingBack is
\* entered and RollbackStarted emitted, once) over an empty snapshot: there
\* is no rollback step record, Skill::rollback is never called, and the
\* report of the run has no rollback step.
C17_EmptyLogRollback ==
    (execution_result \notin {"pending", "Ok"} /\ rollback_log = <<>>) =>
        /\ status \in {"RollingBack", "Failed"}
        /\ NumEvents("RollbackStarted") = 1
        /\ handles = <<>>
        /\ rollback_records = <<>>
        /\ rollback_calls = <<>>
        /\ ~HasEvent("RollbackStepCompleted")
        /\ pc = "returned" =>
              /\ result = "Ok"
              /\ report.rollback_steps = <<>>

\* The first execute of the run failed; the run went through its rollback
\* phase and returned a report without rollback steps.
C17_Witness ==
    /\ pc = "returned"
    /\ execution_result = "Err:SkillExecution"
    /\ Len(execute_calls) = 1
    /\ rollback_log = <<>>
    /\ HasEvent("RollbackStarted")
    /\ report.rollback_steps = <<>>

\* ---------------------------------------------------------------- C18
IsPrefix(a, b) == Len(a) <= Len(b) /\ a = SubSeq(b, 1, Len(a))

\* A step of the run_experiment call itself.
RunStep ==
    \/ Start
    \/ Initialize
    \/ Discover
    \/ ResolveSkill
    \/ ExecuteRep
    \/ ExecuteDone
    \/ SoakElapsed
    \/ RollbackStep
    \/ Complete

\* C18 (per-sink delivery order): every sink whose receiving end is there has
\* received exactly the events the Orchestrator emitted, in the order of
\* their emission; a channel sink whose receiver is gone has the events
\* emitted before that, in order, and neither blocks the run (the call can
\* take its next step) nor makes it fail (a run that went through its
\* rollback phase returns its report, Completed emitted last).
C18_PerSinkOrder ==
    /\ \A i \in DOMAIN event_sinks :
          /\ IsPrefix(received[i], events)
          /\ (event_sinks[i] = "tracing" \/ receiver_open[i]) => received[i] = events
    /\ Len(receiver_open) = Len(event_sinks)
    /\ Len(received) = Len(event_sinks)
    /\ pc \notin {"returned", "aborted"} => ENABLED RunStep
    /\ (pc = "returned" /\ events # <<>> /\ execution_result # "pending") =>
          /\ result = "Ok"
          /\ events[Len(events)] = Completed

\* Two sinks: the receiver of the channel sink went away during the run, the
\* run returned its report and the tracing sink has every event.
C18_Witness ==
    /\ pc = "returned"
    /\ result = "Ok"
    /\ event_sinks = <<"channel", "tracing">>
    /\ ~receiver_open[1]
    /\ received[1] # <<>>
    /\ received[1] # events
    /\ received[2] = events
    /\ HasEvent("RollbackStepCompleted")

\* ---------------------------------------------------------------- C19
\* C19 (initialize and shutdown at most once): within one run_experiment
\* call Agent::initialize is called on the target agent at most one time,
\* as the first of the agent's methods, and Agent::shutdown at most one time
\* (the Orchestrator never calls it).
C19_InitializeOnce ==
    /\ Count(agent_calls, "initialize") <= 1
    /\ Count(agent_calls, "shutdown") <= 1
    /\ agent_calls # <<>> => agent_calls[1] = "initialize"
    /\ pc \in {"discover", "resolve", "execute", "soak", "rollback"} =>
          Count(agent_calls, "initialize") = 1

\* A whole run with executes and rollbacks: one initialize, many contexts.
C19_Witness ==
    /\ pc = "returned"
    /\ result = "Ok"
    /\ Count(agent_calls, "initialize") = 1
    /\ Count(agent_calls, "build_context") >= 4
    /\ Len(rollback_calls) >= 2

\* ---------------------------------------------------------------- C20
\* C20 (cancellation during the soak): whatever ends the soak sleep, the
\* elapsed duration or a cancellation, the run goes on to its rollback
\* phase: the step that leaves WaitingDuration enters RollingBack.
C20_CancelDuringSoak ==
    [][(pc = "soak" /\ pc' # "soak") =>
          /\ pc' = "rollback"
          /\ status' = "RollingBack"
          /\ handles' = iter_reverse(rollback_log)]_vars

\* ---------------------------------------------------------------- C21
\* C21 (pod_kill of an ownerless pod): the handle records a killed pod
\* without owner with has_owner = false, and the rollback of that handle
\* logs a warning and is recorded as a rollback step with success = false
\* and an explanatory error.
C21_OwnerlessPodRollback ==
    /\ \A i \in DOMAIN killed_pods :
          \E p \in Pod : p.name = killed_pods[i].name
                         /\ p.has_owner = killed_pods[i].has_owner
                         /\ p \in {pk_targets[k] : k \in DOMAIN pk_targets}
    /\ (pk_pc = "recorded" /\ \E i \in DOMAIN killed_pods : ~killed_pods[i].has_owner) =>
          /\ Count(pk_log, "warn") >= 1
          /\ rollback_records # <<>>
          /\ ~rollback_records[Len(rollback_records)].success
          /\ rollback_records[Len(rollback_records)].error # "none"

\* ---------------------------------------------------------------- C22
\* The rows the handle of update_load has an undo entry for.
Captured == {all_undo[i].pk_value : i \in DOMAIN all_undo}

\* C22 (rollback is idempotent): when rollback is called again with the
\* same handle after an earlier call, complete or partial, has returned,
\* every captured row that the earlier call had restored to its pre-execute
\* value still holds that value when the replay returns.
C22_RollbackIdempotent ==
    (ul_pc = "rolled_back" /\ ul_replay >= 2) =>
        \A k \in Captured :
            db_rows_replayed[k] = db_rows_before[k] => db_rows[k] = db_rows_before[k]

\* ---------------------------------------------------------------- C23
\* C23 (update_load round trip): when execute has returned its handle every
\* captured row holds the sentinel; when the rollback of the handle has
\* returned without a failed statement every captured row holds exactly its
\* pre-execute value, NULL and empty included; the rows without an undo
\* entry hold their pre-execute value throughout.
C23_UpdateLoadRoundTrip ==
    /\ ul_pc = "executed" =>
          /\ \A k \in Captured : db_rows[k] = Sentinel
          /\ \A k \in RowKeys \ Captured : db_rows[k] = db_rows_before[k]
    /\ (ul_pc = "rolled_back" /\ ul_replay = 1 /\ ~ul_errors) =>
          /\ \A k \in Captured : db_rows[k] = db_rows_before[k]
          /\ \A k \in RowKeys \ Captured : db_rows[k] = db_rows_before[k]

\* ---------------------------------------------------------------- C24
\* The place of a status in the order Pending, Discovering, Executing,
\* WaitingDuration, RollingBack, Completed | Failed.
StatusRank(s) ==
    CASE s = "NoExperiment"    -> 0
      [] s = "Pending"         -> 1
      [] s = "Discovering"     -> 2
      [] s = "Executing"       -> 3
      [] s = "WaitingDuration" -> 4
      [] s = "RollingBack"     -> 5
      [] s \in {"Completed", "Failed"} -> 6

\* C24 (status is monotone): every change of the status of the experiment
\* moves forward in the order; it moves to the next status, or from
\* Executing past WaitingDuration to RollingBack; a terminal status is
\* entered from RollingBack only, and never left.
C24_StatusMonotone ==
    [][status' # status =>
          /\ StatusRank(status') > StatusRank(status)
          /\ \/ StatusRank(status') = StatusRank(status) + 1
             \/ status = "Executing" /\ status' = "RollingBack"
          /\ status' \in {"Completed", "Failed"} => status = "RollingBack"
          /\ status \notin {"Completed", "Failed"}]_vars

\* A run that skipped WaitingDuration and reached a terminal status.
C24_Witness ==
    /\ pc = "returned"
    /\ status = "Failed"
    /\ HasEvent("RollbackStarted")
    /\ ~HasEvent("DurationWaitBegin")

\* ---------------------------------------------------------------- C25
\* C25 (agent lock discipline): a run is inside initialize or discover only
\* while it holds the write-lock of the agent, and inside a skill's execute
\* or rollback only while it holds a read-lock; no write-lock is held
\* together with any other guard; so no initialize or discover call of one
\* run overlaps an execute or rollback call of another.
C25_LockDiscipline ==
    /\ \A r \in Runs :
          /\ in_call[r] \in {"initialize", "discover"} => lock_writer = r
          /\ in_call[r] \in {"execute", "rollback"} => r \in lock_readers
    /\ lock_writer # 0 => lock_readers = {}
    /\ \A r1, r2 \in Runs :
          ~ (/\ in_call[r1] \in {"initialize", "discover"}
             /\ in_call[r2] \in {"execute", "rollback"})

\* One run is inside a skill's execute while another waits for the
\* write-lock to call initialize.
C25_Witness ==
    \E r1, r2 \in Runs :
        /\ in_call[r1] = "execute"
        /\ run_pos[r2] = "want_initialize"
        /\ ~ENABLED AcquireWrite(r2)

\* ---------------------------------------------------------------- C26
\* The RollbackStepCompleted events emitted so far, in order.
StepEvents == SelectSeq(events, LAMBDA e : e.type = "RollbackStepCompleted")

\* C26 (every rollback step record has its event): the number of
\* RollbackStepCompleted events equals the number of rollback step
\* records, the records of handles whose skill is not found or whose
\* context cannot be built included.
C26_EveryStepHasEvent ==
    Len(StepEvents) = Len(rollback_records)

\* C26 amended: the RollbackStepCompleted events are, in order, those of
\* the step records of the handles Skill::rollback was called with, each
\* with the skill name and the success of its record; a step record with
\* error "skill not found" or "context build failed" has no event.
C26_EveryStepHasEventAmended ==
    /\ Len(StepEvents) = Len(Attempted)
    /\ Len(StepEvents) = Len(rollback_calls)
    /\ \A k \in DOMAIN StepEvents :
          StepEvents[k] = RollbackStepCompleted(rollback_records[Attempted[k]].skill_name,
                                                rollback_records[Attempted[k]].success)

\* A returned run with a called and a skipped handle: two step records,
\* one RollbackStepCompleted event.
C26_Witness ==
    /\ pc = "returned"
    /\ Len(rollback_records) = 2
    /\ \E i \in DOMAIN rollback_records : rollback_records[i].error = "context build failed"
    /\ Len(StepEvents) = 1

\* ---------------------------------------------------------------- C27
\* C27 (the owning skill is found at rollback): every handle in the log
\* carries the descriptor name of the skill whose execute returned it, the
\* agent has a skill of that name, and no rollback step is recorded with
\* error "skill not found".
C27_OwningSkillFound ==
    /\ \A k \in DOMAIN rollback_log :
          /\ rollback_log[k].skill_name =
                 config.skills[execute_calls[rollback_log[k].id].inv].skill_name
          /\ skill_by_name(rollback_log[k].skill_name)
    /\ \A i \in DOMAIN rollback_records :
          rollback_records[i].error # "skill not found"

\* A returned run that rolled back a handle of config_change and one of
\* insert_load.
C27_Witness ==
    /\ pc = "returned"
    /\ \E i, j \in DOMAIN rollback_records :
          /\ rollback_records[i].skill_name = "db.config_change"
          /\ rollback_records[i].success
          /\ rollback_records[j].skill_name = "db.insert_load"

C29_NodeDrainRoundTrip ==
    (nd_pc = "rolled_back" /\ nd_errors = 0) =>
        \A i \in DOMAIN nd_undo :
            nodes[nd_undo[i]].unschedulable = nodes_before[nd_undo[i]].unschedulable

\* ---------------------------------------------------------------- C30
\* C30 (excluded services are never stopped): service_stop issues no
\* systemctl stop for a service the exclusion list of the discovery
\* matches, whether the services were discovered or named in the params.
C30_ExcludedNeverStopped ==
    \A i \in DOMAIN stop_cmds :
        ~ \E e \in EXCLUDED_SERVICES : contains(stop_cmds[i], e)

\* ---------------------------------------------------------------- C31
\* The relational skills an experiment on a DbAgent may name.
RelationalSkills ==
    {"db.insert_load", "db.update_load", "db.select_load", "db.config_change",
     "db.table_lock", "db.row_lock"}

\* C31 (the DbAgent resolves every relational skill): skill_by_name finds
\* insert_load, update_load, select_load, config_change, table_lock and
\* row_lock, so a run that ends with "Unknown skill" was not invoking one
\* of them.
C31_RelationalSkillsResolve ==
    execution_result = "Err:Config:Unknown skill" =>
        config.skills[inv].skill_name \notin RelationalSkills

\* ---------------------------------------------------------------- C32
\* C32 (daemon concurrency bound): the experiment tasks that have not ended
\* are never more than settings.max_concurrent; a task is spawned only
\* when fewer than max_concurrent are running; and a trigger that finds
\* max_concurrent running is skipped: no task is added for it.
C32_ConcurrencyBound ==
    [][/\ Len(dm_tasks') <= dm_max_concurrent
       /\ Len(dm_tasks') > Len(dm_tasks) => Len(dm_tasks) < dm_max_concurrent
       /\ (dm_idx' # dm_idx /\ dm_pc = "tick" /\ Len(dm_tasks) = dm_max_concurrent)
             => dm_tasks' = dm_tasks /\ dm_last' # "spawned"]_vars

\* A trigger fired while max_concurrent (at least one) experiments were
\* running and was skipped.
C32_Witness ==
    /\ dm_last = "skipped"
    /\ dm_max_concurrent >= 1
    /\ Len(dm_tasks) = dm_max_concurrent

\* ---------------------------------------------------------------- C33
\* C33 (graceful shutdown of the daemon): once the shutdown signal has been
\* sent no experiment task is spawned, and the daemon returns, its PID file
\* removed, only when no experiment task is left running.
C33_GracefulShutdown ==
    [][/\ dm_signal => Len(dm_tasks') <= Len(dm_tasks)
       /\ dm_pc' = "returned" => dm_tasks' = <<>> /\ ~pid_file']_vars

\* C33 amended: once the scheduler has left its loop by the shutdown branch
\* no experiment task is spawned (a tick under way when the signal is sent
\* still spawns); and the daemon returns, its PID file removed, only when no
\* experiment task is left running, those spawned after the signal included.
C33_GracefulShutdownAmended ==
    [][/\ Len(dm_tasks') > Len(dm_tasks) => dm_pc = "tick" /\ dm_pc' = "tick"
       /\ dm_pc \in {"waiting", "returned"} =>
             /\ Len(dm_tasks') <= Len(dm_tasks)
             /\ dm_pc' \in {"waiting", "returned"}
       /\ dm_pc' = "returned" => dm_tasks' = <<>> /\ ~pid_file']_vars

\* The daemon has seen the signal and waits for an experiment that was
\* running when the signal was sent and is now in its rollback phase.
C33_Witness ==
    /\ dm_pc = "waiting"
    /\ \E i \in DOMAIN dm_tasks : /\ ~dm_tasks[i].after_signal
                                   /\ dm_tasks[i].phase = "rollback"
    /\ pid_file
    /\ ~ENABLED DaemonReturn

\* ---------------------------------------------------------------- C34
\* The positions of the failed records of a skill_executions list.
FailedExecutions(executions) == {i \in DOMAIN executions : ~executions[i].success}

\* The run has returned a report whose status is a failed one.
ReportFailed == pc = "returned" /\ result = "Ok" /\ status = "Failed"

\* C34 (failed report, failed record): a returned report with a failed
\* status has exactly one failed execution record, the last of the list,
\* carrying the error, and a SkillExecuted{success=false} event was emitted
\* for it; a report with status "completed" has no failed execution record.
C34_FailedReportHasFailedRecord ==
    /\ ReportFailed =>
          LET executions == report.skill_executions IN
          /\ FailedExecutions(executions) = {Len(executions)}
          /\ executions # <<>>
          /\ executions[Len(executions)].error # "none"
          /\ Count(events, SkillExecuted(executions[Len(executions)].skill_name, FALSE)) = 1
    /\ (pc = "returned" /\ report.status = "completed") =>
          FailedExecutions(report.skill_executions) = {}

\* C34 amended: a returned report whose failure is that of a skill's execute
\* call has exactly one failed execution record, the last of the list,
\* carrying the error, with one SkillExecuted{success=false} event emitted
\* for it; a report that failed on resolving a skill, validating its params
\* or building a context has no failed execution record and no such event;
\* a report with status "completed" has no failed execution record.
C34_FailedReportHasFailedRecordAmended ==
    /\ (ReportFailed /\ execution_result = "Err:SkillExecution") =>
          LET executions == report.skill_executions IN
          /\ FailedExecutions(executions) = {Len(executions)}
          /\ executions # <<>>
          /\ executions[Len(executions)].error # "none"
          /\ \A e \in SkillNames :
                Count(events, SkillExecuted(e, FALSE)) =
                    IF e = executions[Len(executions)].skill_name THEN 1 ELSE 0
    /\ (ReportFailed /\ execution_result # "Err:SkillExecution") =>
          /\ FailedExecutions(report.skill_executions) = {}
          /\ \A e \in SkillNames : Count(events, SkillExecuted(e, FALSE)) = 0
    /\ (pc = "returned" /\ report.status = "completed") =>
          FailedExecutions(report.skill_executions) = {}

\* A failed report whose failed record follows a successful one.
C34_Witness ==
    /\ ReportFailed
    /\ Len(report.skill_executions) >= 2
    /\ report.skill_executions[1].success
    /\ ~report.skill_executions[Len(report.skill_executions)].success

\* ---------------------------------------------------------------- run command
\* One experiment of the configuration file: its target, the db_type of its
\* target_config, and whether from_yaml accepts its target_config.
RunExperimentConfig == [target : AllTargetDomains, db_type : {"postgres", "mongo"},
                        valid : BOOLEAN]

\* run.rs, lines 37-59: the agent built for experiment i of the file; its
\* config is the target_config of that experiment.
agent_for(experiment, i) ==
    [kind |-> CASE experiment.target = "database" /\ experiment.db_type = "mongo" -> "MongoAgent"
                [] experiment.target = "database" /\ experiment.db_type # "mongo" -> "DbAgent"
                [] experiment.target = "kubernetes" -> "K8sAgent"
                [] OTHER -> "ServerAgent",
     config |-> i]

\* Agent::domain of each agent (MongoAgent and DbAgent are both Database).
domain(agent) ==
    CASE agent.kind \in {"MongoAgent", "DbAgent"} -> "database"
      [] agent.kind = "K8sAgent" -> "kubernetes"
      [] OTHER -> "server"

\* Orchestrator::register_agent, lines 31-34: agents.insert(agent.domain(),
\* Arc::new(RwLock::new(agent))): the entry of the domain is replaced.
insert(map, agent) == [map EXCEPT ![domain(agent)] = agent]

\* run.rs, lines 35-61: one iteration of the registration loop; from_yaml's
\* error leaves execute through `?`.
RunCmdRegister ==
    /\ rc_pc = "register"
    /\ rc_idx <= Len(rc_experiments)
    /\ LET experiment == rc_experiments[rc_idx] IN
         IF experiment.valid
           THEN /\ rc_agents' = insert(rc_agents, agent_for(experiment, rc_idx))
                /\ rc_idx' = rc_idx + 1
                /\ UNCHANGED <<rc_pc, rc_result>>
           ELSE /\ rc_pc' = "returned"
                /\ rc_result' = "Err"
                /\ UNCHANGED <<rc_agents, rc_idx>>
    /\ UNCHANGED <<orchVars, coreSkillVars, lockVars, runCmdRest, rc_experiments,
                   rc_dry_run, rc_runs>>

\* run.rs, lines 63-76: every agent registered; the dry run returns here.
RunCmdRegistered ==
    /\ rc_pc = "register"
    /\ rc_idx > Len(rc_experiments)
    /\ IF rc_dry_run
         THEN /\ rc_pc' = "returned"
              /\ rc_result' = "Ok"
              /\ UNCHANGED rc_idx
         ELSE /\ rc_pc' = "run"
              /\ rc_idx' = 1
              /\ UNCHANGED rc_result
    /\ UNCHANGED <<orchVars, coreSkillVars, lockVars, runCmdRest, rc_experiments,
                   rc_dry_run, rc_agents, rc_runs>>

\* run.rs, lines 78-88, and run_experiment, lines 49-56: the next experiment
\* runs against the agent the map holds for its target.
RunCmdRunExperiment ==
    /\ rc_pc = "run"
    /\ rc_idx <= Len(rc_experiments)
    /\ rc_runs' = Append(rc_runs, [experiment |-> rc_idx,
                                    agent |-> rc_agents[rc_experiments[rc_idx].target]])
    /\ rc_idx' = rc_idx + 1
    /\ UNCHANGED <<orchVars, coreSkillVars, lockVars, runCmdRest, rc_pc,
                   rc_experiments, rc_dry_run, rc_agents, rc_result>>

\* run.rs, lines 90-91: every experiment has run.
RunCmdReturn ==
    /\ rc_pc = "run"
    /\ rc_idx > Len(rc_experiments)
    /\ rc_pc' = "returned"
    /\ rc_result' = "Ok"
    /\ UNCHANGED <<orchVars, coreSkillVars, lockVars, runCmdRest, rc_experiments,
                   rc_dry_run, rc_idx, rc_agents, rc_runs>>

\* run.rs, lines 24-33: the configuration is loaded, the orchestrator new.
InitRunCmd ==
    /\ config = [target |-> "database", skills |-> <<>>]
    /\ IdleExcept("run_cmd")
    /\ rc_pc = "register"
    /\ rc_experiments \in SeqsUpTo(RunExperimentConfig, MaxExperiments)
    /\ rc_dry_run \in BOOLEAN
    /\ rc_idx = 1
    /\ rc_agents = [d \in AllTargetDomains |-> NoAgent]
    /\ rc_runs = <<>>
    /\ rc_result = "none"

NextRunCmd == RunCmdRegister \/ RunCmdRegistered \/ RunCmdRunExperiment \/ RunCmdReturn

SpecRunCmd == InitRunCmd /\ [][NextRunCmd]_vars

\* ---------------------------------------------------------------- C35
\* C35 (each experiment runs against its own agent): every run_experiment
\* call of the run command runs against the agent built from the
\* target_config of the experiment it runs.
C35_OwnAgent ==
    \A k \in DOMAIN rc_runs : rc_runs[k].agent.config = rc_runs[k].experiment

\* ---------------------------------------------------------------- ServerAgent
\* run_experiment, lines 68-72, into ServerAgent::initialize, line 63: the
\* next run on the same orchestrator and agent begins by initializing it.
ServerRunBegin ==
    /\ sa_pc = "ready"
    /\ sa_runs < MaxServerRuns
    /\ sa_pc' = "initialize"
    /\ sa_idx' = 1
    /\ UNCHANGED <<orchVars, coreSkillVars, lockVars, serverAgentRest, sa_hosts,
                   sa_sessions, sa_runs, sa_last>>

\* ServerAgent::initialize, lines 65-76: connect to the next host and push
\* the session; a failed connect returns Err through `?`, and run_experiment
\* with it (line 71), the sessions pushed so far staying in self.sessions.
ServerConnect ==
    /\ sa_pc = "initialize"
    /\ sa_idx <= sa_hosts
    /\ \E connected \in BOOLEAN :
         IF connected
           THEN /\ sa_sessions' = Append(sa_sessions, sa_idx)
                /\ sa_idx' = sa_idx + 1
                /\ UNCHANGED <<sa_pc, sa_runs, sa_last>>
           ELSE /\ sa_pc' = "ready"
                /\ sa_runs' = sa_runs + 1
                /\ sa_last' = "Err:Connection"
                /\ UNCHANGED <<sa_sessions, sa_idx>>
    /\ UNCHANGED <<orchVars, coreSkillVars, lockVars, serverAgentRest, sa_hosts>>

\* ServerAgent::initialize, lines 78-80: every host connected, Ok(()).
ServerInitialized ==
    /\ sa_pc = "initialize"
    /\ sa_idx > sa_hosts
    /\ sa_pc' = "running"
    /\ UNCHANGED <<orchVars, coreSkillVars, lockVars, serverAgentRest, sa_hosts,
                   sa_sessions, sa_idx, sa_runs, sa_last>>

\* run_experiment, lines 74-178: the rest of the run, which neither calls
\* Agent::shutdown nor touches self.sessions (build_context connects a
\* session of its own, owned by the context).
ServerRunReturn ==
    /\ sa_pc = "running"
    /\ sa_pc' = "ready"
    /\ sa_runs' = sa_runs + 1
    /\ sa_last' = "Ok"
    /\ UNCHANGED <<orchVars, coreSkillVars, lockVars, serverAgentRest, sa_hosts,
                   sa_sessions, sa_idx>>

\* ServerAgent::new, lines 25-38: no session; the agent is registered.
InitServerAgent ==
    /\ config = [target |-> "database", skills |-> <<>>]
    /\ IdleExcept("server_agent")
    /\ sa_pc = "ready"
    /\ sa_hosts \in 0..MaxHosts
    /\ sa_sessions = <<>>
    /\ sa_idx = 0
    /\ sa_runs = 0
    /\ sa_last = "none"

NextServerAgent == ServerRunBegin \/ ServerConnect \/ ServerInitialized \/ ServerRunReturn

SpecServerAgent == InitServerAgent /\ [][NextServerAgent]_vars

\* ---------------------------------------------------------------- C36
\* C36 (connections do not accumulate): between and during sequential runs
\* on one server agent, the agent holds at most one SSH session per
\* configured host.
C36_NoAccumulation ==
    \A h \in 1..MaxHosts : Count(sa_sessions, h) <= 1

\* ---------------------------------------------------------------- C37
\* The guards of the agent's lock run r holds.
HoldsAgentGuard(r) == lock_writer = r \/ r \in lock_readers

\* C37 (no deadlock among concurrent runs): a run holds no guard of the
\* agent's lock while it waits for one or while it takes the lock of the
\* experiments map, and every run_experiment call that has been made
\* eventually returns (or is dropped by its caller).
C37_NoDeadlock ==
    /\ [](\A r \in Runs :
            run_pos[r] \in {"want_initialize", "want_discover", "want_execute",
                            "want_rollback", "want_store"} => ~HoldsAgentGuard(r))
    /\ \A r \in FairRuns :
          (run_pos[r] # "idle") ~> (run_pos[r] \in {"returned", "returned_err", "aborted"})

\* One run is about to take the lock of the experiments map while another
\* is inside initialize under the write guard of the agent.
C37_Witness ==
    \E r, q \in FairRuns :
        /\ run_pos[r] = "want_store"
        /\ lock_writer = q
        /\ in_call[q] = "initialize"

\* ---------------------------------------------------------------- C38
\* C38 (rollback on the connection of execute): while a run has handles to
\* roll back, from its execute phase to the end of its rollback phase, the
\* agent's connection resource is not replaced.
C38_SameConnection ==
    [][\A r \in Runs :
          (/\ run_handles[r] > 0
           /\ run_pos[r] \in {"execute_skills", "soak", "want_rollback",
                               "rollback_experiment"})
             => agent_conn' = agent_conn]_vars

\* ---------------------------------------------------------------- dashboard
\* PlannerEvent: the variants the dashboard tells apart.
PlannerEvent(type, experiment_count) == [type |-> type, experiment_count |-> experiment_count]

\* spawn_execution (chaos-tui/src/execution.rs, lines 46-103): what the
\* execution task sends on its two channels: the planner's events, then
\* either one Failed event of its own or the events of the run.
Executions ==
    { [planner |-> <<PlannerEvent("TurnStarted", 0)>>,
       experiment |-> <<Failed("Planning failed")>>],
      [planner |-> <<PlannerEvent("TurnStarted", 0), PlannerEvent("PlanningComplete", 0)>>,
       experiment |-> <<Failed("No experiments were planned")>>],
      [planner |-> <<PlannerEvent("DiscoveryResult", 0), PlannerEvent("PlanningComplete", 1)>>,
       experiment |-> <<Started, SkillExecuted("db.insert_load", TRUE), DurationWaitBegin,
                        RollbackStarted, RollbackStepCompleted("db.insert_load", TRUE),
                        Completed>>],
      [planner |-> <<PlannerEvent("DiscoveryResult", 0), PlannerEvent("PlanningComplete", 1)>>,
       experiment |-> <<Started, SkillExecuted("db.insert_load", FALSE),
                        Failed("execute failed"), RollbackStarted, Completed>>] }

\* DashboardPhase::is_finished, lines 53-58.
is_finished(phase) == phase.tag \in {"Complete", "Failed", "Cancelled"}

\* DashboardState::handle_planner_event, lines 121-222: the phase after it.
handle_planner_event(phase, event) ==
    CASE event.type = "DiscoveryResult" -> DashboardPhase("Discovering", "")
      [] event.type = "PlanningComplete" ->
           IF event.experiment_count > 0 THEN DashboardPhase("Executing", "")
           ELSE DashboardPhase("Complete", "")
      [] OTHER -> phase

\* DashboardState::handle_experiment_event, lines 224-299: the phase after it.
handle_experiment_event(phase, event) ==
    CASE event.type = "Started" -> DashboardPhase("Executing", "")
      [] event.type = "DurationWaitBegin" -> DashboardPhase("Waiting", "")
      [] event.type = "RollbackStarted" -> DashboardPhase("RollingBack", "")
      [] event.type = "Completed" -> DashboardPhase("Complete", "")
      [] event.type = "Failed" -> DashboardPhase("Failed", event.skill_name)
      [] OTHER -> phase

\* lib.rs, lines 129-136: while let Ok(event) = rx.try_recv() over the
\* planner channel.
RECURSIVE drain_planner(_, _)
drain_planner(phase, queue) ==
    IF queue = <<>> THEN phase
    ELSE drain_planner(handle_planner_event(phase, Head(queue)), Tail(queue))

\* lib.rs, lines 137-144: the same over the experiment channel.
RECURSIVE drain_experiment(_, _)
drain_experiment(phase, queue) ==
    IF queue = <<>> THEN phase
    ELSE drain_experiment(handle_experiment_event(phase, Head(queue)), Tail(queue))

\* The execution task sends the next planner event (planner.plan).
TaskSendPlanner ==
    /\ task_handle = "running"
    /\ planner_todo # <<>>
    /\ planner_rx' = Append(planner_rx, Head(planner_todo))
    /\ planner_todo' = Tail(planner_todo)
    /\ UNCHANGED <<orchVars, coreSkillVars, lockVars, dashboardRest, dash_phase,
                   should_quit, task_handle, experiment_todo, experiment_rx,
                   dash_handled>>

\* execution.rs, lines 55-103: planning over, the task sends the next
\* experiment event (error_tx.send, or the sink of the orchestrator).
TaskSendExperiment ==
    /\ task_handle = "running"
    /\ planner_todo = <<>>
    /\ experiment_todo # <<>>
    /\ experiment_rx' = Append(experiment_rx, Head(experiment_todo))
    /\ experiment_todo' = Tail(experiment_todo)
    /\ UNCHANGED <<orchVars, coreSkillVars, lockVars, dashboardRest, dash_phase,
                   should_quit, task_handle, planner_todo, planner_rx, dash_handled>>

\* execution.rs, line 103: the task ends.
TaskFinish ==
    /\ task_handle = "running"
    /\ planner_todo = <<>>
    /\ experiment_todo = <<>>
    /\ task_handle' = "finished"
    /\ UNCHANGED <<orchVars, coreSkillVars, lockVars, dashboardRest, dash_phase,
                   should_quit, planner_todo, experiment_todo, planner_rx,
                   experiment_rx, dash_handled>>

\* lib.rs, lines 150-159: the select! branch of planner_rx.recv().
DashRecvPlanner ==
    /\ ~should_quit
    /\ planner_rx # <<>>
    /\ dash_phase' = handle_planner_event(dash_phase, Head(planner_rx))
    /\ planner_rx' = Tail(planner_rx)
    /\ UNCHANGED <<orchVars, coreSkillVars, lockVars, dashboardRest, should_quit,
                   task_handle, planner_todo, experiment_todo, experiment_rx,
                   dash_handled>>

\* lib.rs, lines 160-169: the select! branch of experiment_rx.recv().
DashRecvExperiment ==
    /\ ~should_quit
    /\ experiment_rx # <<>>
    /\ dash_phase' = handle_experiment_event(dash_phase, Head(experiment_rx))
    /\ dash_handled' = Append(dash_handled, Head(experiment_rx))
    /\ experiment_rx' = Tail(experiment_rx)
    /\ UNCHANGED <<orchVars, coreSkillVars, lockVars, dashboardRest, should_quit,
                   task_handle, planner_todo, experiment_todo, planner_rx>>

\* lib.rs, lines 125-145: a Tick: both channels are drained, the planner's
\* first.
DashTick ==
    /\ ~should_quit
    /\ planner_rx # <<>> \/ experiment_rx # <<>>
    /\ dash_phase' = drain_experiment(drain_planner(dash_phase, planner_rx), experiment_rx)
    /\ dash_handled' = dash_handled \o experiment_rx
    /\ planner_rx' = <<>>
    /\ experiment_rx' = <<>>
    /\ UNCHANGED <<orchVars, coreSkillVars, lockVars, dashboardRest, should_quit,
                   task_handle, planner_todo, experiment_todo>>

\* lib.rs, lines 115-123, and dashboard::handle_key, lines 372-398: Ctrl+C
\* or Ctrl+W; the task is aborted when handle_key returns a cancel action.
\* A key that changes nothing (Ctrl+C on a finished phase) is no step.
DashCancelKey ==
    /\ ~should_quit
    /\ \E key \in {"ctrl_c", "ctrl_w"} :
         /\ dash_phase' = IF ~is_finished(dash_phase) THEN DashboardPhase("Cancelled", "")
                          ELSE dash_phase
         /\ should_quit' = (key = "ctrl_w")
         /\ task_handle' = IF key = "ctrl_w" \/ ~is_finished(dash_phase)
                             THEN (IF task_handle = "running" THEN "aborted" ELSE task_handle)
                           ELSE task_handle
    /\ \/ dash_phase' # dash_phase
       \/ should_quit' # should_quit
       \/ task_handle' # task_handle
    /\ UNCHANGED <<orchVars, coreSkillVars, lockVars, dashboardRest, planner_todo,
                   experiment_todo, planner_rx, experiment_rx, dash_handled>>

\* dashboard::handle_key, lines 400-405: q quits once the phase is finished.
DashQuitKey ==
    /\ ~should_quit
    /\ is_finished(dash_phase)
    /\ should_quit' = TRUE
    /\ UNCHANGED <<orchVars, coreSkillVars, lockVars, dashboardRest, dash_phase,
                   task_handle, planner_todo, experiment_todo, planner_rx,
                   experiment_rx, dash_handled>>

\* lib.rs, lines 84-93: the wizard has started the execution; the
\* dashboard is shown in its Planning phase.
InitDashboard ==
    /\ config = [target |-> "database", skills |-> <<>>]
    /\ IdleExcept("dashboard")
    /\ dash_phase = DashboardPhase("Planning", "")
    /\ should_quit = FALSE
    /\ task_handle = "running"
    /\ \E x \in Executions : planner_todo = x.planner /\ experiment_todo = x.experiment
    /\ planner_rx = <<>>
    /\ experiment_rx = <<>>
    /\ dash_handled = <<>>

NextDashboard ==
    \/ TaskSendPlanner
    \/ TaskSendExperiment
    \/ TaskFinish
    \/ DashRecvPlanner
    \/ DashRecvExperiment
    \/ DashTick
    \/ DashCancelKey
    \/ DashQuitKey

SpecDashboard == InitDashboard /\ [][NextDashboard]_vars

\* ---------------------------------------------------------------- C39
\* The dashboard has handled a Failed event.
FailedReceived == \E i \in DOMAIN dash_handled : dash_handled[i].type = "Failed"

\* C39 (dashboard outcome): once the dashboard has handled every event of
\* an execution that was not cancelled, its phase is Failed with the error
\* if a Failed event was among them; and it shows Complete only when no
\* Failed event was received.
C39_DashboardOutcome ==
    /\ (/\ task_handle = "finished"
        /\ planner_rx = <<>> /\ experiment_rx = <<>>
        /\ dash_phase.tag # "Cancelled"
        /\ FailedReceived) => dash_phase.tag = "Failed"
    /\ dash_phase.tag = "Complete" => ~FailedReceived

\* ---------------------------------------------------------------- C40
\* C40 (cancellation is absorbing): once the phase is Cancelled, no step
\* of the dashboard changes it.
C40_CancelledAbsorbing ==
    [][dash_phase.tag = "Cancelled" => dash_phase'.tag = "Cancelled"]_vars

====
